---- MODULE Spec2Model ----
(***************************************************************************)
(* Fallback dispatch of the Cloudflare worker (cloudflare-worker-enhanced  *)
(* .js, chat route of fetch) and the Pages function in front of it         *)
(* (functions/api/chat.ts, onRequestPost and onRequestGet).                *)
(*                                                                         *)
(* One inbound request is followed from its arrival to its response.  The  *)
(* handler is asynchronous: it is cut at its awaits (request.json(),       *)
(* fetch(...), res.json() / res.text()), and what the upstream provider    *)
(* does at each await is a nondeterministic choice.  A second request to   *)
(* the same worker may be in progress: its invocation is suspended at an   *)
(* await while the first one runs, and the two take turns.                 *)
(***************************************************************************)
EXTENDS Integers, Sequences, FiniteSets, TLC

VARIABLES
    entry,      \* entry point the caller used: "worker" or "pages"
    env,        \* credentials configured in the worker's env
    upstream,   \* what the providers can do during this run
    request,    \* the caller's request: method, path and body
    pagesPc,    \* position of onRequestPost
    pagesResp,  \* response of onRequestPost
    workerReq,  \* body of the request the worker's fetch handler received
    pc,         \* position of the worker's fetch handler
    grp,        \* provider group the handler is at: 1 EdenAI, 2 Gemini, 3 OpenRouter, 4 past all
    mi,         \* index in `models` of the OpenRouter loop
    res,        \* status of the provider response being inspected (0: none)
    errors,     \* the handler's `errors` array
    attempts,   \* history: outbound provider calls started, in order, with what came back
    resp,       \* response of the worker's fetch handler
    elapsed,    \* ms since the outbound call being awaited started (0: none awaited)
    timers,     \* attempts (by index) whose setTimeout is armed
    parked,     \* the other invocation of the fetch handler, suspended at an await
    client      \* the browser-side function being followed, with its locals

vars == <<entry, env, upstream, request, pagesPc, pagesResp, workerReq, pc, grp, mi,
          res, errors, attempts, resp, elapsed, timers, parked, client>>

(***************************************************************************)
(* JavaScript values                                                       *)
(***************************************************************************)
\* `undefined` where a string is expected (a field that is absent)
Undefined == "<undefined>"

\* a value of a JSON field whose type matters: undefined, a number, or a string
\* given as its sequence of characters
JsUndefined == [t |-> "undefined", s |-> <<>>]
JsNumber == [t |-> "number", s |-> <<>>]
JsString(s) == [t |-> "string", s |-> s]

\* !!v : a string is truthy unless empty; the number stands for a non-zero one
Truthy(v) == \/ v.t = "number"
             \/ v.t = "string" /\ v.s # <<>>

IsSpace(c) == c = " "

RECURSIVE TrimStart(_)
TrimStart(s) == IF s # <<>> /\ IsSpace(Head(s)) THEN TrimStart(Tail(s)) ELSE s

RECURSIVE TrimEnd(_)
TrimEnd(s) == IF s # <<>> /\ IsSpace(s[Len(s)])
              THEN TrimEnd(SubSeq(s, 1, Len(s) - 1)) ELSE s

\* String.prototype.trim
Trim(s) == TrimEnd(TrimStart(s))

(***************************************************************************)
(* Inputs                                                                  *)
(***************************************************************************)
Keys == {"EDENAI_API_KEY", "GEMINI_API_KEY", "OPENROUTER_API_KEY"}

\* values a credential may have, as their characters: the second differs from
\* the first in its first characters, the third in its middle alone
SecretValues == { <<"s", "k", "-", "1", "x", "x", "a", "a", "a", "a">>,
                  <<"s", "k", "-", "2", "x", "x", "b", "b", "b", "b">>,
                  <<"s", "k", "-", "1", "y", "y", "a", "a", "a", "a">> }
\* the value the configured credentials have in the runs followed here
DeployedSecret == <<"s", "k", "-", "1", "x", "x", "a", "a", "a", "a">>
\* env.EDENAI_API_KEY when the configured credentials have the value `secret`:
\* undefined (no characters) when not configured
EdenAIKey(secret) == IF "EDENAI_API_KEY" \in env THEN secret ELSE <<>>

DefaultModel == "openai/gpt-4o-mini"
BackupModel1 == "google/gemini-2.0-flash-exp:free"
BackupModel2 == "meta-llama/llama-3.1-8b-instruct:free"
\* request bodies: text that is no JSON, the JSON null, a JSON scalar, an object
ObjectBody(p, m) == [method |-> "POST", path |-> "/", json |-> "object",
                     prompt |-> p, model |-> m]
OtherBody(k) == [method |-> "POST", path |-> "/", json |-> k,
                 prompt |-> JsUndefined, model |-> Undefined]
\* a request without a body
BodilessRequest(method, path) ==
    [method |-> method, path |-> path, json |-> "none",
     prompt |-> JsUndefined, model |-> Undefined]
NonObjectBodies == {OtherBody(k) : k \in {"unparsable", "null", "scalar"}}

\* a request to a proxy route of the worker; `file` is the base64 text of the
\* POST /ocr body: absent, not base64, or the file's data
ProxyRequest(method, path, json, file, fileType) ==
    [method |-> method, path |-> path, json |-> json, prompt |-> JsUndefined,
     model |-> Undefined, file |-> file, fileType |-> fileType, provider |-> "mistral"]

\* pathname.startsWith('/github'); pathname === '/ocr' || pathname.startsWith('/ocr/')
GitHubPaths == {"/github", "/github/search/repositories"}
OcrPaths == {"/ocr", "/ocr/job-1"}

ProxyRequests ==
    {ProxyRequest(m, p, "none", "absent", Undefined) :
        m \in {"GET", "POST", "OPTIONS"}, p \in GitHubPaths \cup {"/ocr/job-1"}}
      \cup {ProxyRequest(m, "/ocr", "none", "absent", Undefined) : m \in {"GET", "OPTIONS"}}
      \cup {ProxyRequest("POST", "/ocr", j, "absent", Undefined) :
               j \in {"unparsable", "null", "object"}}
      \cup {ProxyRequest("POST", "/ocr", "object", "invalid", "application/pdf")}
      \cup {ProxyRequest("POST", "/ocr", "object", "data", t) :
               t \in {Undefined, "application/pdf", "image/png", "image/jpeg",
                      "text/plain"}}

\* preferred-model hints sent to the worker: none, the empty string, a model of
\* the caller's own, one of the worker's backup models
ModelHints == {Undefined, "", "anthropic/claude-3.5-sonnet", BackupModel1}

\* bodies sent to the worker: no prompt, an empty one, a blank one, one with text
WorkerBodies ==
    NonObjectBodies
      \cup {BodilessRequest("OPTIONS", "/"), BodilessRequest("GET", "/"),
            BodilessRequest("GET", "/get-eden-key")}
      \cup {ObjectBody(p, Undefined) :
               p \in {JsUndefined, JsString(<<>>), JsString(<<" ">>)}}
      \cup {ObjectBody(JsString(<<"h">>), m) : m \in ModelHints}

\* bodies sent to the Pages function: also a prompt that is no string, and one
\* that trimming changes
PagesBodies ==
    NonObjectBodies
      \cup {BodilessRequest("GET", "/api/chat")}
      \cup {ObjectBody(p, Undefined) :
               p \in {JsUndefined, JsNumber, JsString(<<>>), JsString(<<" ">>),
                      JsString(<<" ", "h", " ">>)}}
      \cup {ObjectBody(JsString(<<" ", "h", " ">>), "anthropic/claude-3.5-sonnet")}

(***************************************************************************)
(* Upstream providers                                                      *)
(***************************************************************************)
\* HTTP statuses a provider may answer with
Statuses == {200, 500}
\* res.ok
Ok(status) == status >= 200 /\ status <= 299

\* a provider's response body: text that is no JSON, the JSON null, or an object
\* with the provider's text field (absent, empty or not), EdenAI's embedded
\* status "fail" (or not) and an embedded error message (or none)
JsonBody(text, fail, msg) == [json |-> "object", text |-> text, fail |-> fail, msg |-> msg]
RawBody(k) == [json |-> k, text |-> Undefined, fail |-> FALSE, msg |-> Undefined]
\* the bodies provider group g may send with a status: an error response carries
\* no text but perhaps an error message; EdenAI alone has the embedded status
\* "fail", which comes with an error message
ProviderBodies(g, status) ==
    {RawBody("unparsable"), RawBody("null"), JsonBody(Undefined, FALSE, Undefined)}
      \cup (IF Ok(status)
            THEN {JsonBody("", FALSE, Undefined), JsonBody("Hi there", FALSE, Undefined)}
            ELSE {JsonBody(Undefined, FALSE, "quota exceeded")})
      \cup (IF Ok(status) /\ g = 1
            THEN {JsonBody(t, TRUE, "quota exceeded") : t \in {Undefined, "Hi there"}}
            ELSE {})

\* err.message of what the handler's catch blocks can catch
NetworkError == "fetch failed"
AbortError == "The operation was aborted"
SyntaxError == "Unexpected token in JSON"
BodyUsedError == "Body has already been used"
NullTypeError == "Cannot read properties of null"

(***************************************************************************)
(* Responses                                                               *)
(***************************************************************************)
\* new Response(JSON.stringify({success, error, text, provider, model, details}),
\* {status}); an absent field is Undefined, `success` is "true", "false" or absent
\* `apiKey` is the field of the /get-eden-key answer, as its characters
Response(status, success, error, text, provider, model, details) ==
    [kind |-> "json", status |-> status, success |-> success, error |-> error,
     text |-> text, provider |-> provider, model |-> model, details |-> details,
     apiKey |-> <<>>]
\* no response yet
NoResp == [kind |-> "none", status |-> 0, success |-> Undefined, error |-> Undefined,
           text |-> Undefined, provider |-> Undefined, model |-> Undefined,
           details |-> <<>>, apiKey |-> <<>>]
\* the handler did not return: an exception left it
Thrown(msg) == [kind |-> "exception", status |-> 0, success |-> Undefined, error |-> msg,
                text |-> Undefined, provider |-> Undefined, model |-> Undefined,
                details |-> <<>>, apiKey |-> <<>>]
\* new Response(null, { headers: corsHeaders }): the preflight answer
Preflight == [kind |-> "empty", status |-> 200, success |-> Undefined,
              error |-> Undefined, text |-> Undefined, provider |-> Undefined,
              model |-> Undefined, details |-> <<>>, apiKey |-> <<>>]
\* new Response(JSON.stringify({ apiKey: env.EDENAI_API_KEY }), ...)
GetEdenKey(key) ==
    [Response(200, Undefined, Undefined, Undefined, Undefined, Undefined, <<>>)
       EXCEPT !.apiKey = key]

\* an element of `errors`: {provider, model?, status?, error?, details?}
ErrorEntry(provider, model, status, error, details) ==
    [provider |-> provider, model |-> model, status |-> status, error |-> error,
     details |-> details]

\* res.text(): the raw text of a body
RawText(b) == IF b.json = "unparsable" THEN "<html>"
              ELSE IF b.json = "null" THEN "null"
              ELSE IF b.msg # Undefined THEN "{\"error\":{\"message\":\"quota exceeded\"}}"
              ELSE "{}"
(***************************************************************************)
(* The worker's chat route                                                 *)
(***************************************************************************)
\* const prompt = body.prompt; const preferredModel = body.model
prompt == workerReq.prompt
preferredModel == workerReq.model

\* the Gemini block guarded by the EdenAI key
GroupKeyCopied(g) == CASE g = 1 -> "EDENAI_API_KEY"
                       [] g = 2 -> "EDENAI_API_KEY"
                       [] g = 3 -> "OPENROUTER_API_KEY"

\* env.X_API_KEY of the group's `if`
GroupKey(g) == CASE g = 1 -> "EDENAI_API_KEY"
                 [] g = 2 -> "GEMINI_API_KEY"
                 [] g = 3 -> "OPENROUTER_API_KEY"

\* the free model moved to the front once a call of this request has timed out
modelsAfterTimeout(preferred) ==
    IF \E j \in 1..Len(errors) : errors[j].error = AbortError
    THEN << BackupModel1,
            IF preferred # Undefined /\ preferred # "" THEN preferred ELSE DefaultModel,
            BackupModel2 >>
    ELSE << IF preferred # Undefined /\ preferred # "" THEN preferred ELSE DefaultModel,
            BackupModel1,
            BackupModel2 >>

\* the caller's model left out of the list
modelsWithoutPreferred(preferred) == <<DefaultModel, BackupModel1, BackupModel2>>

\* const models = [preferredModel || "openai/gpt-4o-mini", ...]
models(preferred) ==
    << IF preferred # Undefined /\ preferred # "" THEN preferred ELSE DefaultModel,
       BackupModel1,
       BackupModel2 >>

\* `provider` and `model` of the success response of the candidate at (g, i)
SuccessProvider(g) == CASE g = 1 -> "edenai"
                        [] g = 2 -> "gemini"
                        [] g = 3 -> "openrouter"
SuccessModel(g, i, preferred) == CASE g = 1 -> "openai"
                                   [] g = 2 -> "gemini-1.5-flash"
                                   [] g = 3 -> models(preferred)[i]

\* `provider` and `model` of the candidate's entries in `errors`
ErrorProvider(g) == CASE g = 1 -> "EdenAI"
                      [] g = 2 -> "Gemini"
                      [] g = 3 -> "OpenRouter"
ErrorModel(g, i, preferred) == IF g = 3 THEN models(preferred)[i] ELSE Undefined

\* the OpenRouter loop left after its first model
NextGrpNoLoop(g, i) == g + 1

\* the position after the candidate at (g, i): the next iteration of the
\* OpenRouter loop, or the next group
NextGrp(g, i) == IF g = 3 /\ i < 3 THEN 3 ELSE g + 1
NextMi(g, i) == IF g = 3 /\ i < 3 THEN i + 1 ELSE 1

\* data?.openai?.generated_text, data?.candidates?.[0]?.content?.parts?.[0]?.text,
\* data?.choices?.[0]?.message?.content: undefined on null
TextOf(b) == IF b.json = "object" THEN b.text ELSE Undefined
\* data?.openai?.status
StatusOf(b) == IF b.json = "object" /\ b.fail THEN "fail" ELSE Undefined
\* data?.openai?.error?.message
MessageOf(b) == IF b.json = "object" THEN b.msg ELSE Undefined
\* if (text): a string is truthy unless empty
HasText(t) == t # Undefined /\ t # ""

\* the success response built but not returned
ReturnForgotten(text) == [ret |-> FALSE, text |-> text, push |-> <<>>]

\* what the handler does with a response once its body has arrived:
\*   [ret |-> TRUE, text]  the success response is returned
\*   [ret |-> FALSE, push] `push` (no or one entry) is appended to `errors`
Return(text) == [ret |-> TRUE, text |-> text, push |-> <<>>]
Push(e) == [ret |-> FALSE, text |-> Undefined, push |-> <<e>>]
Silent == [ret |-> FALSE, text |-> Undefined, push |-> <<>>]

\* EdenAI, res.ok, the embedded status not looked at
EdenAIStatusIgnored(b) ==
    IF b.json = "unparsable"
    THEN Push(ErrorEntry("EdenAI", Undefined, 0, SyntaxError, Undefined))
    ELSE IF HasText(TextOf(b))
    THEN Return(TextOf(b))
    ELSE Push(ErrorEntry("EdenAI", Undefined, 0,
                         IF MessageOf(b) # Undefined THEN MessageOf(b) ELSE "Provider failed",
                         Undefined))

\* EdenAI, res.ok
EdenAI(b) ==
    IF b.json = "unparsable"
    THEN Push(ErrorEntry("EdenAI", Undefined, 0, SyntaxError, Undefined))
    ELSE IF HasText(TextOf(b)) /\ StatusOf(b) # "fail"
    THEN Return(TextOf(b))
    ELSE Push(ErrorEntry("EdenAI", Undefined, 0,
                         IF MessageOf(b) # Undefined THEN MessageOf(b) ELSE "Provider failed",
                         Undefined))

\* Gemini: res.json() is read only if res.ok; res.text() after it finds the
\* body used
Gemini(status, b) ==
    IF Ok(status)
    THEN IF b.json = "unparsable"
         THEN Push(ErrorEntry("Gemini", Undefined, 0, SyntaxError, Undefined))
         ELSE IF HasText(TextOf(b))
         THEN Return(TextOf(b))
         ELSE Push(ErrorEntry("Gemini", Undefined, 0, BodyUsedError, Undefined))
    ELSE Push(ErrorEntry("Gemini", Undefined, status, Undefined, RawText(b)))

\* one iteration of the OpenRouter loop
OpenRouter(model, status, b) ==
    IF b.json = "unparsable"
    THEN Push(ErrorEntry("OpenRouter", model, 0, SyntaxError, Undefined))
    ELSE IF Ok(status)
    THEN IF HasText(TextOf(b)) THEN Return(TextOf(b)) ELSE Silent
    ELSE IF b.json = "null"
    THEN Push(ErrorEntry("OpenRouter", model, 0, NullTypeError, Undefined))
    ELSE Push(ErrorEntry("OpenRouter", model, status, MessageOf(b), Undefined))

Adapter(g, model, status, b) == CASE g = 1 -> EdenAI(b)
                                  [] g = 2 -> Gemini(status, b)
                                  [] g = 3 -> OpenRouter(model, status, b)

\* what came back from a provider, whatever the handler makes of it
Classify(status, b) ==
    IF ~Ok(status) THEN "http_error"
    ELSE IF b.json = "unparsable" THEN "unparsable"
    ELSE IF b.json = "object" /\ b.fail
    THEN IF b.text = Undefined THEN "embedded_fail" ELSE "embedded_fail_text"
    ELSE IF b.json = "null" \/ b.text = Undefined \/ b.text = "" THEN "empty"
    ELSE "valid"

\* the last element of `attempts` gets what came back: the HTTP status (0: no
\* response), its outcome, and what the handler appended to `errors` for it
Settle(outcome, status, pushed) ==
    [attempts EXCEPT ![Len(attempts)] =
        [@ EXCEPT !.outcome = outcome, !.status = status, !.pushed = pushed]]

\* what no action of the worker's handler changes
outside == <<entry, env, upstream, request, pagesPc, pagesResp, workerReq, parked,
             client>>

\* the handler returns `r`
Respond(r) ==
    /\ resp' = r
    /\ pc' = "done"

\* the routes of fetch, in the order they are tested: the preflight, the
\* GitHub and OCR proxies, /get-eden-key, and the chat route for POST alone
Route ==
    /\ pc = "route"
    /\ IF workerReq.method = "OPTIONS"
       THEN Respond(Preflight)
       ELSE IF workerReq.path \in GitHubPaths
       THEN /\ pc' = "github"
            /\ UNCHANGED resp
       ELSE IF workerReq.path \in OcrPaths
       THEN /\ pc' = "ocr"
            /\ UNCHANGED resp
       ELSE IF workerReq.path = "/get-eden-key" /\ workerReq.method = "GET"
       THEN Respond(GetEdenKey(EdenAIKey(DeployedSecret)))
       ELSE IF workerReq.method # "POST"
       THEN Respond(Response(405, Undefined, "Method not allowed", Undefined,
                             Undefined, Undefined, <<>>))
       ELSE /\ pc' = "parse"
            /\ UNCHANGED resp
    /\ UNCHANGED <<outside, grp, mi, res, errors, attempts, elapsed, timers>>

\* let body = await request.json() ... if (!prompt): the request is refused, or
\* the dispatch starts with an empty `errors`
ParseBody ==
    /\ pc = "parse"
    /\ IF workerReq.json = "unparsable"
       THEN /\ Respond(Response(400, Undefined, "Invalid JSON body", Undefined,
                                Undefined, Undefined, <<>>))
            /\ UNCHANGED <<grp, mi, errors>>
       ELSE IF workerReq.json = "null"
       THEN \* body.prompt on null, outside every try
            /\ Respond(Thrown(NullTypeError))
            /\ UNCHANGED <<grp, mi, errors>>
       ELSE IF ~Truthy(prompt)
       THEN /\ Respond(Response(400, Undefined, "Prompt is required", Undefined,
                                Undefined, Undefined, <<>>))
            /\ UNCHANGED <<grp, mi, errors>>
       ELSE /\ pc' = "group"
            /\ grp' = 1
            /\ mi' = 1
            /\ errors' = <<>>
            /\ UNCHANGED resp
    /\ UNCHANGED <<outside, res, attempts, elapsed, timers>>

\* if (env.X_API_KEY) is false: the group is passed over
SkipGroup ==
    /\ pc = "group"
    /\ grp \in 1..3
    /\ GroupKey(grp) \notin env
    /\ grp' = grp + 1
    /\ UNCHANGED <<outside, pc, mi, res, errors, attempts, resp, elapsed, timers>>

\* an outbound call to the candidate at (grp, mi), not settled yet
Call == [provider |-> SuccessProvider(grp),
         model |-> SuccessModel(grp, mi, preferredModel),
         outcome |-> "pending", status |-> 0, pushed |-> <<>>]

\* the call started without looking at the group's key
StartAttemptUnguarded ==
    /\ pc = "group"
    /\ grp \in 1..3
    /\ attempts' = Append(attempts, Call)
    /\ timers' = timers \cup {Len(attempts) + 1}
    /\ elapsed' = 0
    /\ pc' = "fetching"
    /\ UNCHANGED <<outside, grp, mi, res, errors, resp>>

\* the call started while the one before it is still awaited
StartAttemptNotAwaited ==
    /\ pc \in {"group", "fetching"}
    /\ grp \in 1..3
    /\ GroupKey(grp) \in env
    /\ attempts' = Append(attempts, Call)
    /\ timers' = timers \cup {Len(attempts) + 1}
    /\ elapsed' = 0
    /\ pc' = "fetching"
    /\ UNCHANGED <<outside, grp, mi, res, errors, resp>>

\* const timeoutId = setTimeout(() => controller.abort(), 15000);
\* await fetch(...): the call to the candidate at (grp, mi) starts
StartAttempt ==
    /\ pc = "group"
    /\ grp \in 1..3
    /\ GroupKey(grp) \in env
    /\ attempts' = Append(attempts, Call)
    /\ timers' = timers \cup {Len(attempts) + 1}
    /\ elapsed' = 0
    /\ pc' = "fetching"
    /\ UNCHANGED <<outside, grp, mi, res, errors, resp>>

\* the failed candidate's entries are in `errors`: on to the next one
Advance(pushed) ==
    /\ errors' = errors \o pushed
    /\ grp' = NextGrp(grp, mi)
    /\ mi' = NextMi(grp, mi)
    /\ res' = 0
    /\ elapsed' = 0
    /\ pc' = "group"
    /\ UNCHANGED resp

\* fetch resolves with a response of status s and clearTimeout(timeoutId)
\* runs; EdenAI's else branch records the status without reading the body,
\* every other branch reads the body
\* the response taken with the abort timer left armed
FetchRespondsTimerKept(s) ==
    /\ pc = "fetching"
    /\ s \in upstream.statuses
    /\ UNCHANGED timers
    /\ IF grp = 1 /\ ~Ok(s)
       THEN LET e == ErrorEntry("EdenAI", Undefined, s, Undefined, Undefined)
            IN /\ Advance(<<e>>)
               /\ attempts' = Settle("http_error", s, <<e>>)
       ELSE /\ pc' = "body"
            /\ res' = s
            /\ UNCHANGED <<grp, mi, errors, attempts, resp, elapsed>>
    /\ UNCHANGED outside

\* await fetch(...) resolves with status s; clearTimeout(timeoutId); then
\* res.ok is looked at
FetchResponds(s) ==
    /\ pc = "fetching"
    /\ s \in upstream.statuses
    /\ timers' = timers \ {Len(attempts)}
    /\ IF grp = 1 /\ ~Ok(s)
       THEN LET e == ErrorEntry("EdenAI", Undefined, s, Undefined, Undefined)
            IN /\ Advance(<<e>>)
               /\ attempts' = Settle("http_error", s, <<e>>)
       ELSE /\ pc' = "body"
            /\ res' = s
            /\ UNCHANGED <<grp, mi, errors, attempts, resp, elapsed>>
    /\ UNCHANGED outside

\* the entry pushed without the exception's message
CaughtEntryWithoutMessage(msg) ==
    ErrorEntry(ErrorProvider(grp), ErrorModel(grp, mi, preferredModel), 0,
               Undefined, Undefined)

\* errors.push({ provider, model?, error: err.message })
CaughtEntry(msg) ==
    ErrorEntry(ErrorProvider(grp), ErrorModel(grp, mi, preferredModel), 0,
               msg, Undefined)

\* catch (err) of the candidate's try, err thrown by fetch
Caught(msg) ==
    /\ Advance(<<CaughtEntry(msg)>>)
    /\ attempts' = Settle(IF msg = AbortError THEN "timeout" ELSE "exception", 0,
                          <<CaughtEntry(msg)>>)

\* fetch rejects: the network failed; clearTimeout is not reached
FetchThrows ==
    /\ pc = "fetching"
    /\ "network" \in upstream.failures
    /\ Caught(NetworkError)
    /\ UNCHANGED <<outside, timers>>

\* the 15000 ms of the timer pass before fetch resolves: controller.abort()
\* makes fetch reject
FetchTimesOut ==
    /\ pc = "fetching"
    /\ "timeout" \in upstream.failures
    /\ Len(attempts) \in timers
    /\ timers' = timers \ {Len(attempts)}
    /\ Caught(AbortError)
    /\ UNCHANGED outside

\* await res.json() / res.text() gives body b: the success response is
\* returned, or the candidate has failed
ReadBody(b) ==
    /\ pc = "body"
    /\ b \in upstream.bodies
    /\ LET a == Adapter(grp, ErrorModel(grp, mi, preferredModel), res, b)
       IN /\ IF a.ret
             THEN /\ Respond(Response(200, "true", Undefined, a.text,
                                      SuccessProvider(grp),
                                      SuccessModel(grp, mi, preferredModel), <<>>))
                  /\ elapsed' = 0
                  /\ UNCHANGED <<grp, mi, res, errors>>
             ELSE Advance(a.push)
          /\ attempts' = Settle(Classify(res, b), res, a.push)
    /\ UNCHANGED <<outside, timers>>

\* the all-failed response sent before the OpenRouter group is entered
AllFailedBeforeOpenRouter ==
    /\ pc = "group"
    /\ grp >= 3
    /\ Respond(Response(500, "false", "All AI providers failed", Undefined, Undefined,
                        Undefined, errors))
    /\ UNCHANGED <<outside, grp, mi, res, errors, attempts, elapsed, timers>>

\* past the last group: the all-failed response
AllFailed ==
    /\ pc = "group"
    /\ grp = 4
    /\ Respond(Response(500, "false", "All AI providers failed", Undefined, Undefined,
                        Undefined, errors))
    /\ UNCHANGED <<outside, grp, mi, res, errors, attempts, elapsed, timers>>

(***************************************************************************)
(* The worker's proxy routes: handleGitHubRequest and handleOCRRequest     *)
(***************************************************************************)
\* an outbound call of a proxy route, not settled yet
ProxyCall(provider, model) ==
    [provider |-> provider, model |-> model, outcome |-> "pending", status |-> 0,
     pushed |-> <<>>]

\* the GitHub API called without a look at the token
handleGitHubRequestUnguarded ==
    /\ pc = "github"
    /\ attempts' = Append(attempts, ProxyCall("github", Undefined))
    /\ pc' = "githubFetch"
    /\ UNCHANGED <<outside, grp, mi, res, errors, resp, elapsed, timers>>

\* if (!env.GITHUB_API_TOKEN): 500; else await fetch(githubUrl, ...)
handleGitHubRequest ==
    /\ pc = "github"
    /\ IF "GITHUB_API_TOKEN" \notin env
       THEN /\ Respond(Response(500, Undefined, "GitHub API token not configured",
                                Undefined, Undefined, Undefined, <<>>))
            /\ UNCHANGED attempts
       ELSE /\ attempts' = Append(attempts, ProxyCall("github", Undefined))
            /\ pc' = "githubFetch"
            /\ UNCHANGED resp
    /\ UNCHANGED <<outside, grp, mi, res, errors, elapsed, timers>>

\* GitHub answers with status s and a JSON body (passed on with that status)
\* or one that is no JSON (response.json() throws); or fetch rejects: the catch
\* answers 500
GitHubAnswers(s, json) ==
    /\ pc = "githubFetch"
    /\ attempts' = Settle(IF json = "none" THEN "exception"
                          ELSE IF json = "unparsable" THEN "unparsable"
                          ELSE IF Ok(s) THEN "valid" ELSE "http_error",
                          IF json = "none" THEN 0 ELSE s, <<>>)
    /\ Respond(IF json = "object"
               THEN Response(s, Undefined, Undefined, "github data", Undefined,
                             Undefined, <<>>)
               ELSE Response(500, Undefined, "GitHub API request failed", Undefined,
                             Undefined, Undefined,
                             <<IF json = "none" THEN NetworkError ELSE SyntaxError>>))
    /\ UNCHANGED <<outside, grp, mi, res, errors, elapsed, timers>>

\* the provider the client asked for, whatever the file type
OcrProviderRequested(fileType) == "mistral"

\* the OCR provider chosen from the file type: google for application/pdf and
\* for unknown types, mistral for image/*; fileType || 'application/pdf'
OcrProvider(fileType) ==
    IF fileType \in {"image/png", "image/jpeg"} THEN "mistral" ELSE "google"

\* texts of 0, 19 and 20 characters
ShortText == "nineteen characters"
LongText == "twenty characters ok"

\* the EdenAI OCR call made without a look at the key
handleOCRRequestUnguarded ==
    /\ pc = "ocr"
    /\ attempts' = Append(attempts,
                          ProxyCall("edenai-ocr", OcrProvider(workerReq.fileType)))
    /\ pc' = "ocrFetch"
    /\ UNCHANGED <<outside, grp, mi, res, errors, resp, elapsed, timers>>

\* if (!env.EDENAI_API_KEY): 500; POST /ocr: the body is parsed, the file
\* decoded, the provider chosen and EdenAI called; anything else: 405
handleOCRRequest ==
    /\ pc = "ocr"
    /\ IF "EDENAI_API_KEY" \notin env
       THEN /\ Respond(Response(500, Undefined, "EdenAI API key not configured",
                                Undefined, Undefined, Undefined, <<>>))
            /\ UNCHANGED attempts
       ELSE IF ~(workerReq.method = "POST" /\ workerReq.path = "/ocr")
       THEN /\ Respond(Response(405, Undefined, "Method not allowed for OCR route",
                                Undefined, Undefined, Undefined, <<>>))
            /\ UNCHANGED attempts
       ELSE IF workerReq.json \in {"unparsable", "null"}
       THEN \* request.json() or the destructuring throws: the catch answers
            /\ Respond(Response(500, "false", "OCR request failed", Undefined,
                                Undefined, Undefined,
                                <<IF workerReq.json = "null" THEN NullTypeError
                                  ELSE SyntaxError>>))
            /\ UNCHANGED attempts
       ELSE IF workerReq.file = "absent"
       THEN /\ Respond(Response(400, Undefined, "File data is required", Undefined,
                                Undefined, Undefined, <<>>))
            /\ UNCHANGED attempts
       ELSE IF workerReq.file = "invalid"
       THEN /\ Respond(Response(400, "false", "Failed to decode base64 file data",
                                Undefined, Undefined, Undefined, <<>>))
            /\ UNCHANGED attempts
       ELSE /\ attempts' = Append(attempts,
                                  ProxyCall("edenai-ocr", OcrProvider(workerReq.fileType)))
            /\ pc' = "ocrFetch"
            /\ UNCHANGED resp
    /\ UNCHANGED <<outside, grp, mi, res, errors, elapsed, timers>>

\* EdenAI's OCR answer: a status and a body that is no JSON, or an object with
\* an error message (or none) and the results of the providers in `present`,
\* each with status "fail" (or not) and a text
OcrAnswer(status, json, msg, present, fail, text) ==
    [status |-> status, json |-> json, msg |-> msg, present |-> present,
     fail |-> fail, text |-> text]
OcrAnswers ==
    {OcrAnswer(st, j, Undefined, {}, FALSE, "") :
        st \in Statuses, j \in {"unparsable", "null"}}
      \cup {OcrAnswer(500, "object", m, {}, FALSE, "") : m \in {Undefined, "quota exceeded"}}
      \cup {OcrAnswer(200, "object", Undefined, {}, FALSE, "")}
      \cup {OcrAnswer(200, "object", Undefined, {p}, f, t) :
               p \in {"google", "mistral"}, f \in BOOLEAN,
               t \in {"", ShortText, LongText}}

\* the answer a is inspected: const result = await edenResponse.json() ...
OcrResult(a, provider) ==
    IF a.json = "unparsable"
    THEN Response(500, "false", "OCR request failed", Undefined, Undefined, Undefined,
                  <<SyntaxError>>)
    ELSE IF a.json = "null"
    THEN \* result.error, result[provider] on null: the catch answers
         Response(500, "false", "OCR request failed", Undefined, Undefined, Undefined,
                  <<NullTypeError>>)
    ELSE IF ~Ok(a.status)
    THEN Response(a.status, "false", IF a.msg # Undefined THEN a.msg ELSE "OCR API failed",
                  Undefined, Undefined, Undefined, <<>>)
    ELSE IF provider \notin a.present
    THEN Response(500, "false",
                  IF provider = "google" THEN "No OCR result from provider: google"
                  ELSE "No OCR result from provider: mistral",
                  Undefined, Undefined, Undefined, <<>>)
    ELSE IF a.fail
    THEN Response(500, "false", "OCR processing failed", Undefined, Undefined,
                  Undefined, <<>>)
    ELSE IF a.text = "" \/ Len(a.text) < 20
    THEN Response(400, "false", "OCR extracted insufficient text", Undefined,
                  Undefined, Undefined, <<provider>>)
    ELSE Response(200, "true", Undefined, a.text, provider, Undefined, <<>>)

\* EdenAI answers the OCR call with a, kept in `res`
OcrAnswered(a) ==
    /\ pc = "ocrFetch"
    /\ attempts' = Settle(IF a.json = "unparsable" THEN "unparsable"
                          ELSE IF ~Ok(a.status) THEN "http_error"
                          ELSE "valid", a.status, <<>>)
    /\ res' = a
    /\ Respond(OcrResult(a, OcrProvider(workerReq.fileType)))
    /\ UNCHANGED <<outside, grp, mi, errors, elapsed, timers>>

\* the OCR call rejects: the catch answers 500
OcrFetchThrows ==
    /\ pc = "ocrFetch"
    /\ attempts' = Settle("exception", 0, <<>>)
    /\ Respond(Response(500, "false", "OCR request failed", Undefined, Undefined,
                        Undefined, <<NetworkError>>))
    /\ UNCHANGED <<outside, grp, mi, res, errors, elapsed, timers>>

(***************************************************************************)
(* Time                                                                    *)
(***************************************************************************)
\* the delay of setTimeout(() => controller.abort(), 15000)
TimeoutMs == 15000
\* the clock is followed up to here
MaxElapsed == 20000

\* d ms pass while the handler awaits fetch or the body; an armed timer does
\* not let its 15000 ms pass without firing
TimePasses(d) ==
    /\ pc \in {"fetching", "body"}
    /\ elapsed + d <= MaxElapsed
    /\ Len(attempts) \in timers => elapsed + d <= TimeoutMs
    /\ elapsed' = elapsed + d
    /\ UNCHANGED <<outside, pc, grp, mi, res, errors, attempts, resp, timers>>

(***************************************************************************)
(* The Pages function, onRequestPost and onRequestGet                      *)
(***************************************************************************)
\* `configured` and `masked` are the fields of the onRequestGet answer
PagesResponse(status, success, error, data) ==
    [kind |-> "json", status |-> status, success |-> success, error |-> error,
     data |-> data, configured |-> Undefined, masked |-> <<>>]
NoPagesResp == [kind |-> "none", status |-> 0, success |-> Undefined,
                error |-> Undefined, data |-> NoResp, configured |-> Undefined,
                masked |-> <<>>]
NoRequest == OtherBody("none")

\* !prompt || typeof prompt !== 'string' || prompt.trim().length === 0
InvalidPrompt(p) == \/ ~Truthy(p)
                    \/ p.t # "string"
                    \/ Len(Trim(p.s)) = 0

\* what is not touched by the Pages function
behind == <<entry, env, upstream, request, grp, mi, res, errors, attempts, resp,
            elapsed, timers, parked, client>>

\* the body is parsed and the prompt validated; a valid prompt is sent, trimmed
\* and alone, to the worker
PagesHandle ==
    /\ pagesPc = "start"
    /\ request.method = "POST"
    /\ IF request.json \in {"unparsable", "null"}
       THEN \* request.json() or the destructuring throws: the catch answers
            /\ pagesResp' = PagesResponse(500, "false", "Internal server error", NoResp)
            /\ pagesPc' = "done"
            /\ UNCHANGED <<workerReq, pc>>
       ELSE IF InvalidPrompt(request.prompt)
       THEN /\ pagesResp' = PagesResponse(400, "false",
                     "Prompt is required and must be a non-empty string", NoResp)
            /\ pagesPc' = "done"
            /\ UNCHANGED <<workerReq, pc>>
       ELSE /\ workerReq' = ObjectBody(JsString(Trim(request.prompt.s)), Undefined)
            /\ pc' = "route"
            /\ pagesPc' = "awaitWorker"
            /\ UNCHANGED pagesResp
    /\ UNCHANGED behind

\* fetch(workerUrl) rejects, the request never reaching the worker: the catch
\* answers
PagesFetchThrows ==
    /\ pagesPc = "awaitWorker"
    /\ pc = "route"
    /\ pc' = "idle"
    /\ pagesResp' = PagesResponse(500, "false", "Internal server error", NoResp)
    /\ pagesPc' = "done"
    /\ UNCHANGED <<behind, workerReq>>

\* the worker has answered: its answer is wrapped when not ok, and passed on
\* with status 200 otherwise
PagesReturn ==
    /\ pagesPc = "awaitWorker"
    /\ pc = "done"
    /\ pagesResp' = IF resp.kind = "json" /\ Ok(resp.status)
                    THEN PagesResponse(200, resp.success, resp.error, resp)
                    ELSE PagesResponse(IF resp.kind = "json" THEN resp.status ELSE 500,
                                       "false", "Worker failed to process request", resp)
    /\ pagesPc' = "done"
    /\ UNCHANGED <<behind, workerReq, pc>>

\* `${key.slice(0, 4)}...${key.slice(-4)}`
Masked(key) ==
    SubSeq(key, 1, IF Len(key) < 4 THEN Len(key) ELSE 4)
      \o <<".", ".", ".">>
      \o SubSeq(key, IF Len(key) < 4 THEN 1 ELSE Len(key) - 3, Len(key))

\* the answer of onRequestGet for the server's EdenAI key (no characters: not
\* configured): { success: true, configured, masked }
KeyStatus(key) ==
    [PagesResponse(200, "true", Undefined, NoResp)
       EXCEPT !.configured = IF Len(key) > 0 THEN "true" ELSE "false",
              !.masked = IF Len(key) > 0 THEN Masked(key) ELSE <<>>]

\* onRequestGet; env.VITE_EDENAI_API_KEY, the fallback, is not configured
PagesGet ==
    /\ pagesPc = "start"
    /\ request.method = "GET"
    /\ pagesResp' = KeyStatus(EdenAIKey(DeployedSecret))
    /\ pagesPc' = "done"
    /\ UNCHANGED <<behind, workerReq, pc>>

(***************************************************************************)
(* Two invocations of the worker's handler                                 *)
(***************************************************************************)
\* the local state of an invocation of fetch
NoFrame == [request |-> NoRequest, workerReq |-> NoRequest, pc |-> "absent",
            grp |-> 0, mi |-> 0, res |-> 0, errors |-> <<>>, attempts |-> <<>>,
            resp |-> NoResp, elapsed |-> 0, timers |-> {}]
NewFrame(r) == [NoFrame EXCEPT !.request = r, !.workerReq = r, !.pc = "route"]

\* `errors` declared at module level: one array for every invocation
FrameErrorsShared(f) == errors

\* const errors = [] is declared inside fetch: each invocation has its own
FrameErrors(f) == f.errors

\* the running invocation is suspended at an await (or has not begun, or has
\* returned) and the other one, not finished, runs
Switch ==
    /\ parked.pc \notin {"absent", "done"}
    /\ pc \in {"route", "parse", "fetching", "body", "done"}
    /\ parked' = [request |-> request, workerReq |-> workerReq, pc |-> pc,
                  grp |-> grp, mi |-> mi, res |-> res, errors |-> errors,
                  attempts |-> attempts, resp |-> resp, elapsed |-> elapsed,
                  timers |-> timers]
    /\ request' = parked.request
    /\ workerReq' = parked.workerReq
    /\ pc' = parked.pc
    /\ grp' = parked.grp
    /\ mi' = parked.mi
    /\ res' = parked.res
    /\ errors' = FrameErrors(parked)
    /\ attempts' = parked.attempts
    /\ resp' = parked.resp
    /\ elapsed' = parked.elapsed
    /\ timers' = parked.timers
    /\ UNCHANGED <<entry, env, upstream, pagesPc, pagesResp, client>>

(***************************************************************************)
(* The browser-side callers of the worker: callCloudflareAI                *)
(***************************************************************************)
\* a `retries` value: a number, undefined, or absent from the call
Num(n) == [t |-> "number", n |-> n]
Undef == [t |-> "undefined", n |-> 0]
Absent == [t |-> "absent", n |-> 0]

\* an entry of the client's history: a request sent (with the model in its
\* body), the answer that came back (with the text of a success, if it is
\* one), or a wait of ms milliseconds
Sent(model) == [ev |-> "request", ms |-> 0, model |-> model, text |-> Undefined]
Answered(text) == [ev |-> "answer", ms |-> 0, model |-> Undefined, text |-> text]
Waited(ms) == [ev |-> "wait", ms |-> ms, model |-> Undefined, text |-> Undefined]

\* no function is running
NoClient == [fn |-> "none", pc |-> "idle", arg |-> "none", retries |-> Undef,
             model |-> Undefined, i |-> 0, log |-> <<>>, result |-> Undefined]

\* callCloudflareAI(prompt, retries = 2): a default parameter replaces an absent
\* and an undefined argument; callCloudflareAI({prompt, model, retries}):
\* { retries: 2, ...promptOrOptions } keeps a `retries` that is present, even
\* undefined
optionsRetries(form, r) ==
    IF form = "string"
    THEN IF r.t = "number" THEN r ELSE Num(2)
    ELSE IF r.t = "absent" THEN Num(2) ELSE r

\* the invocation, at the head of its loop with i = 0
callCloudflareAI(form, r, model) ==
    [fn |-> "callCloudflareAI", pc |-> "loop", arg |-> form,
     retries |-> optionsRetries(form, r),
     model |-> IF form = "string" THEN Undefined ELSE model,
     i |-> 0, log |-> <<>>, result |-> Undefined]

\* the ways callCloudflareAI is invoked
AICalls ==
    {callCloudflareAI("string", r, Undefined) :
        r \in {Absent, Undef, Num(-1), Num(0), Num(1)}}
      \cup {callCloudflareAI("object", r, m) :
               r \in {Absent, Undef, Num(-1), Num(0), Num(2)},
               m \in {Undefined, "anthropic/claude-3.5-sonnet"}}

\* what the worker's answer is to the client: a body that is no JSON, the JSON
\* null, or an object {success, text, error}
WorkerData(json, success, text, error) ==
    [json |-> json, success |-> success, text |-> text, error |-> error]
WorkerAnswers ==
    {WorkerData("unparsable", FALSE, Undefined, Undefined),
     WorkerData("null", FALSE, Undefined, Undefined),
     WorkerData("object", TRUE, "Hi there", Undefined),
     WorkerData("object", TRUE, "", Undefined),
     WorkerData("object", FALSE, Undefined, "All AI providers failed"),
     WorkerData("object", FALSE, Undefined, Undefined)}

\* the loop runs once more than `retries` allows
LoopRunsOnceMore(i, r) == r.t = "number" /\ i <= r.n + 1

\* i <= options.retries: false when retries is undefined
LoopRuns(i, r) == r.t = "number" /\ i <= r.n
\* i === options.retries
LastTry(i, r) == r.t = "number" /\ i = r.n

Returned(text) == [client EXCEPT !.pc = "returned", !.result = text]
Threw(msg) == [client EXCEPT !.pc = "thrown", !.result = msg]

\* what no action of a browser-side function changes
server == <<entry, env, upstream, request, pagesPc, pagesResp, workerReq, pc, grp, mi,
            res, errors, attempts, resp, elapsed, timers, parked>>

\* for (let i = 0; i <= options.retries; i++) { ... await fetch(WORKER_URL, ...)
\* with body {prompt, model}; past the loop: throw new Error('Failed after retries')
AISend ==
    /\ client.fn = "callCloudflareAI"
    /\ client.pc = "loop"
    /\ client' = IF LoopRuns(client.i, client.retries)
                 THEN [client EXCEPT !.pc = "await",
                                     !.log = Append(@, Sent(client.model))]
                 ELSE Threw("Failed after retries")
    /\ UNCHANGED server

\* catch (error): rethrown on the last try, else
\* await new Promise(resolve => setTimeout(resolve, 1000 * (i + 1)))
AICaught(c, msg) ==
    IF LastTry(c.i, c.retries)
    THEN [c EXCEPT !.pc = "thrown", !.result = "Failed to get AI response: " \o msg]
    ELSE [c EXCEPT !.pc = "loop", !.i = @ + 1,
                   !.log = Append(@, Waited(1000 * (c.i + 1)))]

\* fetch rejects
AIFetchThrows ==
    /\ client.fn = "callCloudflareAI"
    /\ client.pc = "await"
    /\ client' = AICaught(client, NetworkError)
    /\ UNCHANGED server

\* the worker answers with d: response.json() or data.success may throw; a
\* success with a text is returned; on the last try data.error is thrown (into
\* the catch); otherwise the loop goes on at once
AIAnswered(d) ==
    /\ client.fn = "callCloudflareAI"
    /\ client.pc = "await"
    /\ LET c == [client EXCEPT
                   !.log = Append(@, Answered(IF d.json = "object" /\ d.success
                                              THEN d.text ELSE Undefined))]
       IN client' =
            IF d.json = "unparsable" THEN AICaught(c, SyntaxError)
            ELSE IF d.json = "null" THEN AICaught(c, NullTypeError)
            ELSE IF d.success /\ HasText(d.text)
            THEN [c EXCEPT !.pc = "returned", !.result = d.text]
            ELSE IF LastTry(c.i, c.retries)
            THEN AICaught(c, IF d.error # Undefined THEN d.error
                             ELSE "All AI providers failed")
            ELSE [c EXCEPT !.pc = "loop", !.i = @ + 1]
    /\ UNCHANGED server

(***************************************************************************)
(* The browser side of OCR: extractTextWithMistralOCR, pollAsyncOCRResult  *)
(***************************************************************************)
MAX_RETRIES == 2
DefaultMaxAttempts == 30

\* the state of pollAsyncOCRResult: its maxAttempts, its loop counter, the polls
\* it has sent, the number of the first poll answered 'failed' and of the first
\* answered 'finished' with a text (0: none), how it ended and with what
NoPoll == [max |-> 0, attempt |-> 0, polls |-> 0, failedAt |-> 0, finishedAt |-> 0,
           text |-> Undefined, out |-> "none", result |-> Undefined]

\* pollAsyncOCRResult(jobId, maxAttempts = 30)
pollAsyncOCRResult(maxAttempts) ==
    [NoPoll EXCEPT !.max = IF maxAttempts.t = "number" THEN maxAttempts.n
                           ELSE DefaultMaxAttempts,
                   !.out = "running"]

\* extractTextWithMistralOCR(file, retryCount = 0): `posts` counts the POSTs to
\* /ocr of the whole invocation, `refusedAt` is the number of the first POST
\* answered 401, 403 or 429 (0: none)
extractTextWithMistralOCR ==
    [fn |-> "extractTextWithMistralOCR", pc |-> "start", retryCount |-> 0,
     posts |-> 0, refusedAt |-> 0, poll |-> NoPoll, result |-> Undefined]

\* pollAsyncOCRResult run on its own
PollAlone(maxAttempts) ==
    [fn |-> "pollAsyncOCRResult", pc |-> "polling", retryCount |-> 0,
     posts |-> 0, refusedAt |-> 0, poll |-> pollAsyncOCRResult(maxAttempts),
     result |-> Undefined]

OcrCalls ==
    {extractTextWithMistralOCR} \cup {PollAlone(m) : m \in {Absent, Num(0), Num(2)}}

\* what the worker answers to POST /ocr: a status, a body that is no JSON, null
\* or an object with success, jobId, text and error
OcrData(status, json, success, jobId, text, error) ==
    [status |-> status, json |-> json, success |-> success, jobId |-> jobId,
     text |-> text, error |-> error]
OcrWorkerAnswers ==
    {OcrData(st, "object", FALSE, Undefined, Undefined, e) :
        st \in {400, 401, 403, 429, 500}, e \in {"OCR request failed"}}
      \cup {OcrData(500, "unparsable", FALSE, Undefined, Undefined, Undefined)}
      \cup {OcrData(200, j, FALSE, Undefined, Undefined, Undefined) :
               j \in {"unparsable", "null"}}
      \cup {OcrData(200, "object", FALSE, Undefined, Undefined, e) :
               e \in {Undefined, "OCR processing failed"}}
      \cup {OcrData(200, "object", TRUE, j, t, Undefined) :
               j \in {Undefined, "job-1"}, t \in {Undefined, "", "resume text"}}

\* what the worker answers to GET /ocr/<jobId>
PollData(status, json, jobStatus, text, error) ==
    [status |-> status, json |-> json, jobStatus |-> jobStatus, text |-> text,
     error |-> error]
PollAnswers ==
    {PollData(st, "object", Undefined, Undefined, "Method not allowed for OCR route") :
        st \in {405, 500}}
      \cup {PollData(200, j, Undefined, Undefined, Undefined) : j \in {"unparsable", "null"}}
      \cup {PollData(200, "object", "processing", Undefined, Undefined)}
      \cup {PollData(200, "object", "finished", t, Undefined) :
               t \in {Undefined, "", "resume text"}}
      \cup {PollData(200, "object", "failed", Undefined, e) :
               e \in {Undefined, "unreadable scan"}}

\* one more level of the recursion, also from the level that used its last
RetryAllowedOnceMore(retryCount) == retryCount <= MAX_RETRIES

\* if (retryCount < MAX_RETRIES)
RetryAllowed(retryCount) == retryCount < MAX_RETRIES

\* one more poll than maxAttempts
PollRunsOnceMore(attempt, maxAttempts) == attempt <= maxAttempts

\* attempt < maxAttempts
PollRuns(attempt, maxAttempts) == attempt < maxAttempts

\* await delay(2000); return extractTextWithMistralOCR(file, retryCount + 1)
Recurse(c) == [c EXCEPT !.pc = "start", !.retryCount = c.retryCount + 1]

\* the catch of extractTextWithMistralOCR, for the error msg thrown in its try:
\* the next level if one is left, the error rethrown if not
OcrCaught(c, msg) ==
    IF RetryAllowed(c.retryCount) THEN Recurse(c)
    ELSE [c EXCEPT !.pc = "thrown", !.result = msg]

\* await fileToBase64(file), then the POST to /ocr is sent; or the file cannot
\* be read and the catch takes over
OcrPost(readable) ==
    /\ client.fn = "extractTextWithMistralOCR"
    /\ client.pc = "start"
    /\ client' = IF readable
                 THEN [client EXCEPT !.pc = "posted", !.posts = client.posts + 1]
                 ELSE OcrCaught(client, "FileReader error")
    /\ UNCHANGED server

\* the POST rejects
OcrPostThrows ==
    /\ client.fn = "extractTextWithMistralOCR"
    /\ client.pc = "posted"
    /\ client' = OcrCaught(client, NetworkError)
    /\ UNCHANGED server

\* the worker answers the POST with a
OcrPostAnswered(a) ==
    /\ client.fn = "extractTextWithMistralOCR"
    /\ client.pc = "posted"
    /\ LET c == IF a.status \in {401, 403, 429} /\ client.refusedAt = 0
                THEN [client EXCEPT !.refusedAt = client.posts]
                ELSE client
       IN client' =
            IF a.status # 200
            THEN IF a.status \in {401, 403}
                 THEN OcrCaught(c, "EdenAI API authentication failed. Please check your API key configuration.")
                 ELSE IF a.status = 429
                 THEN OcrCaught(c, "EdenAI API rate limit exceeded. Please try again later.")
                 ELSE IF RetryAllowed(c.retryCount) THEN Recurse(c)
                 ELSE OcrCaught(c, IF a.status = 400 THEN "OCR API failed: 400"
                                   ELSE "OCR API failed: 500")
            ELSE IF a.json = "unparsable" THEN OcrCaught(c, SyntaxError)
            ELSE IF a.json = "null" THEN OcrCaught(c, NullTypeError)
            ELSE IF ~a.success
            THEN OcrCaught(c, IF a.error # Undefined THEN a.error ELSE "OCR failed")
            ELSE IF a.jobId # Undefined
            THEN [c EXCEPT !.pc = "polling", !.poll = pollAsyncOCRResult(Absent)]
            ELSE IF a.text \notin {Undefined, ""}
            THEN [c EXCEPT !.pc = "returned", !.result = a.text]
            ELSE OcrCaught(c, "No text extracted from OCR")
    /\ UNCHANGED server

\* pollAsyncOCRResult has ended: its caller goes on
PollReturns(c, text) ==
    LET d == [c EXCEPT !.poll.out = "returned", !.poll.result = text]
    IN [d EXCEPT !.pc = "returned", !.result = text]
PollThrew(c, msg) ==
    LET d == [c EXCEPT !.poll.out = "thrown", !.poll.result = msg]
    IN IF c.fn = "extractTextWithMistralOCR" THEN OcrCaught(d, msg)
       ELSE [d EXCEPT !.pc = "thrown", !.result = msg]

\* the head of the loop: the next poll is sent, or the loop is over and
\* 'OCR job timed out' is thrown
PollLoop ==
    /\ client.fn \in {"extractTextWithMistralOCR", "pollAsyncOCRResult"}
    /\ client.pc = "polling"
    /\ client' = IF PollRuns(client.poll.attempt, client.poll.max)
                 THEN [client EXCEPT !.pc = "polled",
                                     !.poll.polls = client.poll.polls + 1]
                 ELSE PollThrew(client, "OCR job timed out")
    /\ UNCHANGED server

\* await delay(2000), and the loop goes round
PollAgain(c) == [c EXCEPT !.pc = "polling", !.poll.attempt = c.poll.attempt + 1]

\* the poll rejects: the catch waits
PollFetchThrows ==
    /\ client.pc = "polled"
    /\ client' = PollAgain(client)
    /\ UNCHANGED server

\* the worker answers the poll with p
PollAnswered(p) ==
    /\ client.pc = "polled"
    /\ client' =
         IF p.status # 200 THEN PollAgain(client)
         ELSE IF p.json \in {"unparsable", "null"} THEN PollAgain(client)
         ELSE IF p.jobStatus = "finished" /\ p.text \notin {Undefined, ""}
         THEN PollReturns([client EXCEPT !.poll.finishedAt = client.poll.polls,
                                         !.poll.text = p.text], p.text)
         ELSE IF p.jobStatus = "failed"
         THEN \* the throw is inside the try: the catch waits and the loop goes on
              PollAgain(IF client.poll.failedAt = 0
                        THEN [client EXCEPT !.poll.failedAt = client.poll.polls]
                        ELSE client)
         ELSE PollAgain(client)
    /\ UNCHANGED server

(***************************************************************************)
(* The resume parser: parseResumeFromFile                                  *)
(***************************************************************************)
\* a file's content as its characters' classes: "a" a printable character,
\* "s" white space, "c" a control character of \x00-\x08 or \x0E-\x1F,
\* "h" one of \x7F-\xFF
Chars(n, c) == [i \in 1..n |-> c]

\* s without the characters of the classes in `drop`
Without(s, drop) == SelectSeq(s, LAMBDA c : c \notin drop)

\* textContent.substring(0, 2000).replace(/[\x00-\x08\x0E-\x1F\x7F-\xFF]/g, '')
PrefixLength == 2000
ReadableChars(s) ==
    Without(SubSeq(s, 1, IF Len(s) < PrefixLength THEN Len(s) ELSE PrefixLength),
            {"c", "h"})

\* .replace(/[\x00-\x08\x0E-\x1F]/g, ' ')
Blanked(s) == [i \in 1..Len(s) |-> IF s[i] = "c" THEN "s" ELSE s[i]]

\* .replace(/\s+/g, ' '): of a run of white space the first character stays
WithBefore(s) == [i \in 1..Len(s) |-> <<s[i], IF i > 1 THEN s[i - 1] ELSE "">>]
Collapsed(s) ==
    LET kept == SelectSeq(WithBefore(s), LAMBDA p : ~(p[1] = "s" /\ p[2] = "s"))
    IN [i \in 1..Len(kept) |-> kept[i][1]]

\* the text taken from a file read as text, in the fallback
CleanedText(s) == Trim([i \in 1..Len(Collapsed(Blanked(s))) |->
                          IF Collapsed(Blanked(s))[i] = "s" THEN " "
                          ELSE Collapsed(Blanked(s))[i]])

\* readableChars.length > 200; extractedText.length < 50
MinReadable == 200
MinExtracted == 50

\* file.name.endsWith('.txt')
EndsWith(name, suffix) ==
    /\ Len(name) >= Len(suffix)
    /\ SubSeq(name, Len(name) - Len(suffix) + 1, Len(name)) = suffix
DotTxt == <<".", "t", "x", "t">>

File(type, name, content) == [type |-> type, name |-> name, content |-> content]
TxtName == <<"c", "v", ".", "t", "x", "t">>
PdfName == <<"c", "v", ".", "p", "d", "f">>

\* the files looked at: text files (by type, or by name alone) of 49 and 50
\* characters, and PDFs whose content is plain text, blanks, bytes, or short
Files ==
    {File("text/plain", PdfName, Chars(n, "a")) : n \in {49, 50}}
      \cup {File("application/pdf", TxtName, Chars(50, "a"))}
      \cup {File("application/pdf", PdfName, c) :
               c \in {Chars(201, "a"), Chars(201, "s"), Chars(300, "c"),
                      Chars(200, "a") \o Chars(60, "h"),
                      Chars(30, "a") \o Chars(180, "c") \o Chars(19, "a")}}

\* file.type === 'text/plain' || file.name.endsWith('.txt')
IsTextFile(file) == file.type = "text/plain" \/ EndsWith(file.name, DotTxt)

\* parseResumeFromFile(file): `len` is extractedText.length, `chats` counts the
\* calls of parseTextWithChatAPI, `chatLen` is the length of the text given to
\* it, `error` the error thrown to the caller; the other fields are those of
\* the extractTextWithMistralOCR it calls
parseResumeFromFile(file) ==
    [fn |-> "parseResumeFromFile", pc |-> "start", file |-> file, len |-> 0,
     chats |-> 0, chatLen |-> 0, error |-> [prefix |-> "", msg |-> Undefined],
     retryCount |-> 0, posts |-> 0, refusedAt |-> 0, poll |-> NoPoll,
     result |-> Undefined]

\* a text of 50 characters that the OCR route may return
LongResume == "Jane Roe, engineer, ten years of experience, Paris"

\* what the worker answers the POST to /ocr and the polls with, in these runs
ParseOcrAnswers ==
    {OcrData(500, "object", FALSE, Undefined, Undefined, "OCR request failed"),
     OcrData(401, "object", FALSE, Undefined, Undefined, "OCR request failed"),
     OcrData(200, "object", TRUE, "job-1", Undefined, Undefined),
     OcrData(200, "object", TRUE, Undefined, "resume text", Undefined),
     OcrData(200, "object", TRUE, Undefined, LongResume, Undefined)}
ParsePollAnswers ==
    {PollData(405, "object", Undefined, Undefined, "Method not allowed for OCR route"),
     PollData(200, "object", "finished", LongResume, Undefined)}

\* the outer catch: throw new Error(`Failed to parse resume: ${error.message}`)
ParseFail(c, msg) ==
    [c EXCEPT !.pc = "thrown",
              !.error = [prefix |-> "Failed to parse resume: ", msg |-> msg]]

\* the chat API called whatever the length of the text
ParseCheckSkipped(c) ==
    [c EXCEPT !.pc = "chat", !.chats = c.chats + 1, !.chatLen = c.len]

\* if (!extractedText || extractedText.length < 50) throw ...; then
\* await parseTextWithChatAPI(extractedText)
ParseCheck(c) ==
    IF c.len < MinExtracted
    THEN ParseFail(c, "Could not extract enough text from file. Please ensure the file contains readable text.")
    ELSE [c EXCEPT !.pc = "chat", !.chats = c.chats + 1, !.chatLen = c.len]

\* a text file is read directly, any other goes to extractTextWithMistralOCR
ParseStart ==
    /\ client.fn = "parseResumeFromFile"
    /\ client.pc = "start"
    /\ client' = IF IsTextFile(client.file)
                 THEN [client EXCEPT !.pc = "reading"]
                 ELSE [client EXCEPT !.fn = "extractTextWithMistralOCR"]
    /\ UNCHANGED server

\* extractedText = await file.text(), or file.text() rejects
ParseRead(ok) ==
    /\ client.fn = "parseResumeFromFile"
    /\ client.pc = "reading"
    /\ client' = IF ok
                 THEN ParseCheck([client EXCEPT !.len = Len(client.file.content)])
                 ELSE ParseFail(client, "The file could not be read")
    /\ UNCHANGED server

\* extractTextWithMistralOCR has returned its text, or thrown: the fallback
OcrEnds ==
    /\ client.fn = "extractTextWithMistralOCR"
    /\ client.pc \in {"returned", "thrown"}
    /\ "file" \in DOMAIN client
    /\ client' = IF client.pc = "returned"
                 THEN ParseCheck([client EXCEPT !.fn = "parseResumeFromFile",
                                                !.len = Len(client.result)])
                 ELSE [client EXCEPT !.fn = "parseResumeFromFile", !.pc = "fallback"]
    /\ UNCHANGED server

\* catch (ocrError): the file read as text, taken if more than 200 of its first
\* 2000 characters are readable
ParseFallback(ok) ==
    /\ client.fn = "parseResumeFromFile"
    /\ client.pc = "fallback"
    /\ client' =
         IF ok /\ Len(ReadableChars(client.file.content)) > MinReadable
         THEN ParseCheck([client EXCEPT !.len = Len(CleanedText(client.file.content))])
         ELSE ParseFail(client, "OCR extraction failed. Please try a different file format (PDF, DOCX, or TXT).")
    /\ UNCHANGED server

\* how parseTextWithChatAPI and the placeholder test end
ChatOutcomes ==
    {"Failed to get AI response: fetch failed", "No JSON in response",
     SyntaxError, "Placeholder data received", "parsed"}

ParseChatEnds(o) ==
    /\ client.fn = "parseResumeFromFile"
    /\ client.pc = "chat"
    /\ client' = IF o = "parsed" THEN [client EXCEPT !.pc = "returned"]
                 ELSE ParseFail(client, o)
    /\ UNCHANGED server

(***************************************************************************)
(* The browser side of cloudflareWorkerService: callAI, callAIWithRetry    *)
(***************************************************************************)
\* an entry of callAIWithRetry's history: callAI called, the error it threw,
\* the text it returned, the wait before the next attempt
Called == [ev |-> "call", ms |-> 0, msg |-> Undefined, value |-> JsUndefined]
Rejected(msg) == [ev |-> "error", ms |-> 0, msg |-> msg, value |-> JsUndefined]
Got(value) == [ev |-> "value", ms |-> 0, msg |-> Undefined, value |-> value]
Paused(ms) == [ev |-> "wait", ms |-> ms, msg |-> Undefined, value |-> JsUndefined]

\* const { maxRetries = 3, ...aiOptions } = options; let lastError = null;
\* let delay = 1000
callAIWithRetry(maxRetries) ==
    [fn |-> "callAIWithRetry", pc |-> "loop",
     maxRetries |-> IF maxRetries.t = "number" THEN maxRetries.n ELSE 3,
     attempt |-> 1, delay |-> 1000, lastError |-> Undefined, log |-> <<>>,
     result |-> JsUndefined, error |-> Undefined]

RetryCalls == {callAIWithRetry(m) : m \in {Absent, Undef, Num(0), Num(1), Num(2)}}

\* what the worker answers to callAI: a status, and a body that is no JSON,
\* null, or an object whose text is absent, a number or a string
AIData(status, json, text) == [status |-> status, json |-> json, text |-> text]
AIAnswers ==
    {AIData(500, "object", JsUndefined)}
      \cup {AIData(200, j, JsUndefined) : j \in {"unparsable", "null"}}
      \cup {AIData(200, "object", t) :
               t \in {JsUndefined, JsNumber, JsString(<<>>), JsString(<<" ">>),
                      JsString(<<"H", "i">>), JsString(<<" ", "O", "k">>)}}

WorkerAIError == "Worker AI error: 500"
EmptyAIResponse == "Empty response from AI worker"
TrimTypeError == "data.text.trim is not a function"

\* callAI once the worker's answer d is there: the text it returns, or the
\* error it throws
callAI(d) ==
    IF d.status # 200 THEN [ok |-> FALSE, msg |-> WorkerAIError, value |-> JsUndefined]
    ELSE IF d.json = "unparsable"
    THEN [ok |-> FALSE, msg |-> SyntaxError, value |-> JsUndefined]
    ELSE IF d.json = "null"
    THEN [ok |-> FALSE, msg |-> NullTypeError, value |-> JsUndefined]
    ELSE IF ~Truthy(d.text)
    THEN [ok |-> FALSE, msg |-> EmptyAIResponse, value |-> JsUndefined]
    ELSE IF d.text.t = "number"
    THEN [ok |-> FALSE, msg |-> TrimTypeError, value |-> JsUndefined]
    ELSE IF Len(Trim(d.text.s)) = 0
    THEN [ok |-> FALSE, msg |-> EmptyAIResponse, value |-> JsUndefined]
    ELSE [ok |-> TRUE, msg |-> Undefined, value |-> d.text]

\* the delay left as it is
NextDelaySame(delay) == delay

\* delay *= 2
NextDelay(delay) == delay * 2

\* for (let attempt = 1; attempt <= maxRetries; attempt++): callAI is called, or
\* the loop is over and lastError (or the fixed error) is thrown
RetrySend ==
    /\ client.fn = "callAIWithRetry"
    /\ client.pc = "loop"
    /\ client' = IF client.attempt <= client.maxRetries
                 THEN [client EXCEPT !.pc = "await", !.log = Append(@, Called)]
                 ELSE [client EXCEPT !.pc = "thrown",
                                     !.error = IF client.lastError # Undefined
                                               THEN client.lastError
                                               ELSE "Failed to generate text after retries"]
    /\ UNCHANGED server

\* catch (error): lastError = error; the wait and the doubling unless this was
\* the last attempt
RetryCaught(c, msg) ==
    LET d == [c EXCEPT !.lastError = msg, !.log = Append(@, Rejected(msg)),
                       !.pc = "loop", !.attempt = @ + 1]
    IN IF c.attempt < c.maxRetries
       THEN [d EXCEPT !.log = Append(@, Paused(c.delay)), !.delay = NextDelay(c.delay)]
       ELSE d

\* callAI's fetch rejects
RetryFetchThrows ==
    /\ client.fn = "callAIWithRetry"
    /\ client.pc = "await"
    /\ client' = RetryCaught(client, NetworkError)
    /\ UNCHANGED server

\* the worker answers callAI with d
RetryAnswered(d) ==
    /\ client.fn = "callAIWithRetry"
    /\ client.pc = "await"
    /\ client' = IF callAI(d).ok
                 THEN [client EXCEPT !.pc = "returned", !.result = callAI(d).value,
                                     !.log = Append(@, Got(callAI(d).value))]
                 ELSE RetryCaught(client, callAI(d).msg)
    /\ UNCHANGED server

(***************************************************************************)
(* The system                                                              *)
(***************************************************************************)
\* every behaviour of the providers: any status, any body, a network failure,
\* no answer within 15000 ms
AnyUpstream ==
    [statuses |-> Statuses,
     bodies   |-> UNION {ProviderBodies(g, s) : g \in 1..3, s \in Statuses},
     failures |-> {"network", "timeout"}]

\* nothing has run yet
Fresh ==
    /\ pagesPc = IF entry = "pages" THEN "start" ELSE "unused"
    /\ pagesResp = NoPagesResp
    /\ workerReq = IF entry = "worker" THEN request ELSE NoRequest
    /\ pc = IF entry = "worker" THEN "route" ELSE "idle"
    /\ grp = 0
    /\ mi = 0
    /\ res = 0
    /\ errors = <<>>
    /\ attempts = <<>>
    /\ resp = NoResp
    /\ elapsed = 0
    /\ timers = {}
    /\ client = NoClient

\* one request, to either entry point
Init ==
    /\ entry \in {"worker", "pages"}
    /\ env \in SUBSET Keys
    /\ upstream = AnyUpstream
    /\ request \in IF entry = "worker" THEN WorkerBodies ELSE PagesBodies
    /\ parked = NoFrame
    /\ Fresh

Next ==
    \/ Route
    \/ ParseBody
    \/ SkipGroup
    \/ StartAttempt
    \/ \E s \in Statuses : FetchResponds(s)
    \/ FetchThrows
    \/ FetchTimesOut
    \/ \E b \in ProviderBodies(grp, res) : ReadBody(b)
    \/ AllFailed
    \/ PagesHandle
    \/ PagesFetchThrows
    \/ PagesReturn
    \/ PagesGet

Spec == Init /\ [][Next]_vars

\* providers that answer with a text or with an HTTP error carrying a message,
\* or fail to answer
PlainUpstream ==
    [statuses |-> Statuses,
     bodies   |-> {JsonBody("Hi there", FALSE, Undefined),
                   JsonBody(Undefined, FALSE, "quota exceeded")},
     failures |-> {"network", "timeout"}]

\* one request, to either entry point, the providers plain
InitLive ==
    /\ entry \in {"worker", "pages"}
    /\ env \in SUBSET Keys
    /\ upstream = PlainUpstream
    /\ request \in IF entry = "worker" THEN WorkerBodies ELSE PagesBodies
    /\ parked = NoFrame
    /\ Fresh

\* every outbound call completes or times out, and the runtime keeps running
\* the handlers: no step that can be taken is put off for ever
SpecLive == InitLive /\ [][Next]_vars /\ WF_vars(Next)

\* one chat request to the worker, the clock followed
InitTimed ==
    /\ entry = "worker"
    /\ env \in SUBSET Keys
    /\ upstream = PlainUpstream
    /\ request = ObjectBody(JsString(<<"h">>), Undefined)
    /\ parked = NoFrame
    /\ Fresh

\* time passes in steps of 5000 ms
Delays == {5000}

NextTimed ==
    \/ Route
    \/ ParseBody
    \/ SkipGroup
    \/ StartAttempt
    \/ \E s \in Statuses : FetchResponds(s)
    \/ FetchThrows
    \/ FetchTimesOut
    \/ \E b \in ProviderBodies(grp, res) : ReadBody(b)
    \/ AllFailed
    \/ \E d \in Delays : TimePasses(d)

SpecTimed == InitTimed /\ [][NextTimed]_vars

\* chat requests with and without a preferred model
PairBodies == {ObjectBody(JsString(<<"h">>), m) :
                  m \in {Undefined, "anthropic/claude-3.5-sonnet"}}

\* two chat requests to the same worker, neither begun
InitPair ==
    /\ entry = "worker"
    /\ env \in {{"OPENROUTER_API_KEY"}, {"EDENAI_API_KEY", "GEMINI_API_KEY"}}
    /\ upstream = PlainUpstream
    /\ request \in PairBodies
    /\ parked \in {NewFrame(r) : r \in PairBodies}
    /\ Fresh

NextPair ==
    \/ Route
    \/ ParseBody
    \/ SkipGroup
    \/ StartAttempt
    \/ \E s \in Statuses : FetchResponds(s)
    \/ FetchThrows
    \/ FetchTimesOut
    \/ \E b \in ProviderBodies(grp, res) : ReadBody(b)
    \/ AllFailed
    \/ Switch

SpecPair == InitPair /\ [][NextPair]_vars

\* one request to a proxy route of the worker
InitProxy ==
    /\ entry = "worker"
    /\ env \in SUBSET {"EDENAI_API_KEY", "GITHUB_API_TOKEN"}
    /\ upstream = AnyUpstream
    /\ request \in ProxyRequests
    /\ parked = NoFrame
    /\ Fresh

NextProxy ==
    \/ Route
    \/ handleGitHubRequest
    \/ \E st \in Statuses, j \in {"object", "unparsable", "none"} : GitHubAnswers(st, j)
    \/ handleOCRRequest
    \/ \E a \in OcrAnswers : OcrAnswered(a)
    \/ OcrFetchThrows

SpecProxy == InitProxy /\ [][NextProxy]_vars

\* a browser-side function is invoked; the worker is what answers it
InitClient ==
    /\ entry = "client"
    /\ env = Keys
    /\ upstream = AnyUpstream
    /\ request = NoRequest
    /\ parked = NoFrame
    /\ pagesPc = "unused"
    /\ pagesResp = NoPagesResp
    /\ workerReq = NoRequest
    /\ pc = "idle"
    /\ grp = 0
    /\ mi = 0
    /\ res = 0
    /\ errors = <<>>
    /\ attempts = <<>>
    /\ resp = NoResp
    /\ elapsed = 0
    /\ timers = {}
    /\ client \in AICalls

NextClient ==
    \/ AISend
    \/ AIFetchThrows
    \/ \E d \in WorkerAnswers : AIAnswered(d)

SpecClient == InitClient /\ [][NextClient]_vars

\* the providers in the end-to-end runs: they answer 200 with a text or 500
\* with a message, or the call fails on the network
EndUpstream ==
    [statuses |-> Statuses,
     bodies   |-> {JsonBody("Hi there", FALSE, Undefined),
                   JsonBody(Undefined, FALSE, "quota exceeded")},
     failures |-> {"network"}]

\* callCloudflareAI against the worker with the three keys configured: `attempts`
\* runs on over the worker's requests of one invocation
InitEnd ==
    /\ entry = "client"
    /\ env = Keys
    /\ upstream = EndUpstream
    /\ request = NoRequest
    /\ parked = NoFrame
    /\ pagesPc = "unused"
    /\ pagesResp = NoPagesResp
    /\ workerReq = NoRequest
    /\ pc = "idle"
    /\ grp = 0
    /\ mi = 0
    /\ res = 0
    /\ errors = <<>>
    /\ attempts = <<>>
    /\ resp = NoResp
    /\ elapsed = 0
    /\ timers = {}
    /\ client \in {callCloudflareAI("object", r, m) :
                      r \in {Num(0), Num(1)}, m \in {Undefined, BackupModel1}}

\* the head of callCloudflareAI's loop, its POST of {prompt, model} starting a
\* run of the worker's handler (const errors = [] anew)
EndSend ==
    /\ client.fn = "callCloudflareAI"
    /\ client.pc = "loop"
    /\ pc \in {"idle", "done"}
    /\ IF LoopRuns(client.i, client.retries)
       THEN /\ client' = [client EXCEPT !.pc = "await",
                                        !.log = Append(@, Sent(client.model))]
            /\ request' = ObjectBody(JsString(<<"h">>), client.model)
            /\ workerReq' = request'
            /\ pc' = "route"
            /\ grp' = 0
            /\ mi' = 0
            /\ res' = 0
            /\ errors' = <<>>
            /\ resp' = NoResp
            /\ elapsed' = 0
       ELSE /\ client' = Threw("Failed after retries")
            /\ UNCHANGED <<request, workerReq, pc, grp, mi, res, errors, resp, elapsed>>
    /\ UNCHANGED <<entry, env, upstream, pagesPc, pagesResp, attempts, timers, parked>>

\* the worker's response reaches callCloudflareAI
EndAnswer ==
    /\ pc = "done"
    /\ AIAnswered(WorkerData("object", resp.success = "true", resp.text, resp.error))

NextEnd ==
    \/ EndSend
    \/ Route
    \/ ParseBody
    \/ StartAttempt
    \/ \E st \in Statuses : FetchResponds(st)
    \/ FetchThrows
    \/ \E b \in ProviderBodies(grp, res) : ReadBody(b)
    \/ AllFailed
    \/ EndAnswer

SpecEnd == InitEnd /\ [][NextEnd]_vars

\* parseResumeFromFile is invoked
InitParse ==
    /\ entry = "client"
    /\ env = Keys
    /\ upstream = AnyUpstream
    /\ request = NoRequest
    /\ parked = NoFrame
    /\ pagesPc = "unused"
    /\ pagesResp = NoPagesResp
    /\ workerReq = NoRequest
    /\ pc = "idle"
    /\ grp = 0
    /\ mi = 0
    /\ res = 0
    /\ errors = <<>>
    /\ attempts = <<>>
    /\ resp = NoResp
    /\ elapsed = 0
    /\ timers = {}
    /\ client \in {parseResumeFromFile(f) : f \in Files}

NextParse ==
    \/ ParseStart
    \/ \E ok \in BOOLEAN : ParseRead(ok)
    \/ \E readable \in BOOLEAN : OcrPost(readable)
    \/ OcrPostThrows
    \/ \E a \in ParseOcrAnswers : OcrPostAnswered(a)
    \/ PollLoop
    \/ PollFetchThrows
    \/ \E p \in ParsePollAnswers : PollAnswered(p)
    \/ OcrEnds
    \/ \E ok \in BOOLEAN : ParseFallback(ok)
    \/ \E o \in ChatOutcomes : ParseChatEnds(o)

SpecParse == InitParse /\ [][NextParse]_vars

\* callAIWithRetry is invoked
InitRetry ==
    /\ entry = "client"
    /\ env = Keys
    /\ upstream = AnyUpstream
    /\ request = NoRequest
    /\ parked = NoFrame
    /\ pagesPc = "unused"
    /\ pagesResp = NoPagesResp
    /\ workerReq = NoRequest
    /\ pc = "idle"
    /\ grp = 0
    /\ mi = 0
    /\ res = 0
    /\ errors = <<>>
    /\ attempts = <<>>
    /\ resp = NoResp
    /\ elapsed = 0
    /\ timers = {}
    /\ client \in RetryCalls

NextRetry ==
    \/ RetrySend
    \/ RetryFetchThrows
    \/ \E d \in AIAnswers : RetryAnswered(d)

SpecRetry == InitRetry /\ [][NextRetry]_vars

\* extractTextWithMistralOCR or pollAsyncOCRResult is invoked; every fetch settles
\* and every delay ends
InitOcr ==
    /\ entry = "client"
    /\ env = Keys
    /\ upstream = AnyUpstream
    /\ request = NoRequest
    /\ parked = NoFrame
    /\ pagesPc = "unused"
    /\ pagesResp = NoPagesResp
    /\ workerReq = NoRequest
    /\ pc = "idle"
    /\ grp = 0
    /\ mi = 0
    /\ res = 0
    /\ errors = <<>>
    /\ attempts = <<>>
    /\ resp = NoResp
    /\ elapsed = 0
    /\ timers = {}
    /\ client \in OcrCalls

NextOcr ==
    \/ \E readable \in BOOLEAN : OcrPost(readable)
    \/ OcrPostThrows
    \/ \E a \in OcrWorkerAnswers : OcrPostAnswered(a)
    \/ PollLoop
    \/ PollFetchThrows
    \/ \E p \in PollAnswers : PollAnswered(p)

SpecOcr == InitOcr /\ [][NextOcr]_vars /\ WF_vars(NextOcr)

(***************************************************************************)
(* Vocabulary of the properties                                            *)
(***************************************************************************)
\* the handler has answered (or an exception has left it)
Done == pc = "done"
\* the request passed the handler's validation: the dispatch has begun
Dispatched == pc \in {"group", "fetching", "body"} \/ (Done /\ grp >= 1)
AllFailedResponse ==
    Done /\ resp.kind = "json" /\ resp.success = "false"
         /\ resp.error = "All AI providers failed"
SuccessResponse == Done /\ resp.kind = "json" /\ resp.success = "true"

\* the attempts that came back with a valid result
ValidAttempts == {i \in 1..Len(attempts) : attempts[i].outcome = "valid"}
FailedOutcomes == {"http_error", "unparsable", "embedded_fail", "embedded_fail_text",
                   "empty", "exception", "timeout"}

Candidate(p, m) == [provider |-> p, model |-> m]
CandidateOf(a) == Candidate(a.provider, a.model)
\* the model in the first slot of the OpenRouter group: the caller's, if it
\* supplied one
FirstModel == IF workerReq.model \in {Undefined, ""} THEN "openai/gpt-4o-mini"
              ELSE workerReq.model
OpenRouterOrder == <<FirstModel, "google/gemini-2.0-flash-exp:free",
                     "meta-llama/llama-3.1-8b-instruct:free">>
\* the configured candidates in priority order
PriorityOrder ==
    (IF "EDENAI_API_KEY" \in env THEN <<Candidate("edenai", "openai")>> ELSE <<>>)
      \o (IF "GEMINI_API_KEY" \in env
          THEN <<Candidate("gemini", "gemini-1.5-flash")>> ELSE <<>>)
      \o (IF "OPENROUTER_API_KEY" \in env
          THEN [i \in 1..3 |-> Candidate("openrouter", OpenRouterOrder[i])] ELSE <<>>)
\* the attempts made so far are the first candidates of the priority order
InPriorityOrder ==
    /\ Len(attempts) <= Len(PriorityOrder)
    /\ \A i \in 1..Len(attempts) : CandidateOf(attempts[i]) = PriorityOrder[i]

Min(S) == CHOOSE x \in S : \A y \in S : x <= y

(***************************************************************************)
(* C1: when the worker answers a dispatched request, the candidates were   *)
(* attempted in the order EdenAI, Gemini, OpenRouter model 1, 2, 3; if one *)
(* of them returned a valid result the answer is success:true with the     *)
(* provider and model of the first that did; and if none did, every        *)
(* configured candidate was given its attempt.                             *)
(***************************************************************************)
C1_FirstValidCandidateWins ==
    (Done /\ Dispatched) =>
        /\ InPriorityOrder
        /\ IF ValidAttempts # {}
           THEN /\ SuccessResponse
                /\ CandidateOf(resp) = PriorityOrder[Min(ValidAttempts)]
           ELSE Len(attempts) = Len(PriorityOrder)

\* the last OpenRouter model answers after the four candidates before it failed
C1_Witness ==
    /\ SuccessResponse
    /\ Len(attempts) = 5
    /\ ValidAttempts = {5}
    /\ resp.provider = "openrouter"
    /\ resp.model = "meta-llama/llama-3.1-8b-instruct:free"

(***************************************************************************)
(* C2: no outbound call starts after a candidate has produced a success:   *)
(* an attempt that came back valid is the last attempt of its request.     *)
(***************************************************************************)
C2_NoAttemptAfterSuccess ==
    /\ \A i \in ValidAttempts : i = Len(attempts)
    /\ SuccessResponse => ~ENABLED StartAttempt

\* EdenAI succeeds while Gemini and OpenRouter are configured and untouched
C2_Witness ==
    /\ SuccessResponse
    /\ env = Keys
    /\ Len(attempts) = 1

(***************************************************************************)
(* C3: an EdenAI answer of HTTP 200 with the embedded status "fail", with  *)
(* or without a generated_text, is never returned as a success: a failure  *)
(* is recorded for EdenAI, and the next configured candidate is attempted  *)
(* before the worker answers.                                              *)
(***************************************************************************)
EmbeddedFail ==
    /\ attempts # <<>>
    /\ attempts[1].provider = "edenai"
    /\ attempts[1].outcome \in {"embedded_fail", "embedded_fail_text"}

C3_EmbeddedFailIsFailure ==
    EmbeddedFail =>
        /\ resp.provider # "edenai"
        /\ errors # <<>> /\ errors[1].provider = "EdenAI"
        /\ Done => \/ Len(PriorityOrder) = 1
                   \/ Len(attempts) >= 2 /\ CandidateOf(attempts[2]) = PriorityOrder[2]

\* EdenAI answers 200, status "fail" and a generated_text; Gemini then succeeds
C3_Witness ==
    /\ EmbeddedFail
    /\ attempts[1].outcome = "embedded_fail_text"
    /\ SuccessResponse
    /\ resp.provider = "gemini"

(***************************************************************************)
(* C4: the details of the all-failed response hold exactly one entry per   *)
(* attempted candidate, in the order of the attempts.                      *)
(***************************************************************************)
EntryOf(a) == [provider |-> CASE a.provider = "edenai" -> "EdenAI"
                              [] a.provider = "gemini" -> "Gemini"
                              [] a.provider = "openrouter" -> "OpenRouter",
               model |-> IF a.provider = "openrouter" THEN a.model ELSE Undefined]

C4_OneEntryPerAttempt ==
    AllFailedResponse =>
        /\ Len(resp.details) = Len(attempts)
        /\ \A i \in 1..Len(attempts) :
              /\ resp.details[i].provider = EntryOf(attempts[i]).provider
              /\ resp.details[i].model = EntryOf(attempts[i]).model

(***************************************************************************)
(* C5: with no provider key configured, a request with a non-empty prompt  *)
(* makes no outbound call and is answered, not by an exception, with       *)
(* success:false, error "All AI providers failed" and empty details.       *)
(***************************************************************************)
C5_NoProviderConfigured ==
    (env = {} /\ Dispatched) =>
        /\ attempts = <<>>
        /\ Done => /\ AllFailedResponse
                   /\ resp.details = <<>>

C5_Witness ==
    /\ env = {}
    /\ entry = "worker"
    /\ Truthy(request.prompt)
    /\ AllFailedResponse

(***************************************************************************)
(* C6: a provider group whose credential is not configured is never        *)
(* attempted and has no entry in `errors` nor in the details.              *)
(***************************************************************************)
GroupNames == << [key |-> "EDENAI_API_KEY", call |-> "edenai", entry |-> "EdenAI"],
                 [key |-> "GEMINI_API_KEY", call |-> "gemini", entry |-> "Gemini"],
                 [key |-> "OPENROUTER_API_KEY", call |-> "openrouter",
                  entry |-> "OpenRouter"] >>

C6_UnconfiguredGroupSkipped ==
    \A g \in 1..3 :
        GroupNames[g].key \notin env =>
            /\ \A i \in 1..Len(attempts) : attempts[i].provider # GroupNames[g].call
            /\ \A i \in 1..Len(errors) : errors[i].provider # GroupNames[g].entry
            /\ \A i \in 1..Len(resp.details) :
                  resp.details[i].provider # GroupNames[g].entry

\* Gemini alone is configured and fails: the details hold its entry alone
C6_Witness ==
    /\ env = {"GEMINI_API_KEY"}
    /\ AllFailedResponse
    /\ Len(attempts) = 1
    /\ Len(resp.details) = 1

(***************************************************************************)
(* C7: a request whose prompt is missing or empty after trimming is        *)
(* answered with a caller error by both entry points, and causes no        *)
(* outbound call: none to a provider, and none from the Pages function to  *)
(* the worker.                                                             *)
(***************************************************************************)
BlankPrompt ==
    /\ request.json = "object"
    /\ \/ request.prompt.t = "undefined"
       \/ request.prompt.t = "string" /\ Trim(request.prompt.s) = <<>>

C7_BlankPromptRefused ==
    BlankPrompt =>
        /\ attempts = <<>>
        /\ entry = "pages" => pc = "idle"
        /\ (entry = "worker" /\ Done) => (resp.kind = "json" /\ resp.status = 400)
        /\ (entry = "pages" /\ pagesPc = "done") => pagesResp.status = 400

(***************************************************************************)
(* C8: within one request no (provider, model) candidate is attempted      *)
(* more than once, whatever the preferred-model hint.                      *)
(***************************************************************************)
C8_NoCandidateTwice ==
    \A i, j \in 1..Len(attempts) :
        i < j => CandidateOf(attempts[i]) # CandidateOf(attempts[j])

(***************************************************************************)
(* C9: the OpenRouter models are attempted in the order: the caller's      *)
(* preferred model if it supplied one and openai/gpt-4o-mini otherwise,    *)
(* then google/gemini-2.0-flash-exp:free, then                             *)
(* meta-llama/llama-3.1-8b-instruct:free; and a model is attempted only    *)
(* after every model before it has failed.                                 *)
(***************************************************************************)
IsOpenRouter(a) == a.provider = "openrouter"
OpenRouterAttempts == SelectSeq(attempts, IsOpenRouter)

C9_OpenRouterModelOrder ==
    /\ Len(OpenRouterAttempts) <= 3
    /\ \A i \in 1..Len(OpenRouterAttempts) :
          /\ OpenRouterAttempts[i].model = OpenRouterOrder[i]
          /\ \A j \in 1..(i - 1) : OpenRouterAttempts[j].outcome \in FailedOutcomes

\* the caller's model, then both backup models, have been attempted
C9_Witness ==
    /\ workerReq.model = "anthropic/claude-3.5-sonnet"
    /\ Len(OpenRouterAttempts) = 3
    /\ OpenRouterAttempts[1].model = "anthropic/claude-3.5-sonnet"
    /\ OpenRouterAttempts[3].outcome = "valid"

\* no model supplied: openai/gpt-4o-mini has the first slot
C9_WitnessDefault ==
    /\ workerReq.model = Undefined
    /\ Len(OpenRouterAttempts) = 3
    /\ OpenRouterAttempts[1].model = "openai/gpt-4o-mini"

(***************************************************************************)
(* C10: every request to the chat route ends in a structured JSON          *)
(* response, never in an exception leaving the fetch handler.              *)
(***************************************************************************)
C10_AlwaysStructuredResponse ==
    (Done /\ workerReq.method = "POST") => resp.kind = "json"

(***************************************************************************)
(* C11: no response of the worker or of the Pages function depends on the  *)
(* value of a credential: had the configured credentials any other value,  *)
(* everything else the same, the body of the response would be the same,   *)
(* on every route and method.                                              *)
(***************************************************************************)
\* the answers to this request had the configured credentials the value
\* `secret`: the routes that read a credential's value are answered anew, the
\* chat route builds its answers from the providers' replies alone
WorkerAnswerUnder(secret) ==
    IF workerReq.method = "GET" /\ workerReq.path = "/get-eden-key"
    THEN GetEdenKey(EdenAIKey(secret))
    ELSE resp
PagesAnswerUnder(secret) ==
    IF request.method = "GET" THEN KeyStatus(EdenAIKey(secret)) ELSE pagesResp

C11_ResponseIndependentOfSecrets ==
    \A secret \in SecretValues :
        /\ (entry = "worker" /\ Done) => resp = WorkerAnswerUnder(secret)
        /\ (entry = "pages" /\ pagesPc = "done") => pagesResp = PagesAnswerUnder(secret)

(***************************************************************************)
(* C12: for every candidate attempt, the time between the start of the     *)
(* outbound call and the moment the dispatcher holds its success or has    *)
(* recorded its failure never exceeds 15000 ms, at whatever stage the      *)
(* provider hangs: before it sends a status, or while its body is read.    *)
(***************************************************************************)
C12_AttemptWithinTimeout ==
    pc \in {"fetching", "body"} => elapsed <= TimeoutMs

(***************************************************************************)
(* C13: within one chat request at most one outbound provider call is in   *)
(* flight at any time: the call of attempt k+1 starts only after attempt k *)
(* has come back (with a result, a failure or a timeout).                  *)
(***************************************************************************)
InFlight == {i \in 1..Len(attempts) : attempts[i].outcome = "pending"}

C13_OneCallInFlight ==
    /\ Cardinality(InFlight) <= 1
    /\ \A i \in InFlight : i = Len(attempts) /\ pc \in {"fetching", "body"}
    /\ pc \in {"fetching", "body"} => InFlight = {Len(attempts)}

\* the third call is in flight, the two before it have failed
C13_Witness ==
    /\ Len(attempts) = 3
    /\ InFlight = {3}
    /\ attempts[1].outcome \in FailedOutcomes
    /\ attempts[2].outcome \in FailedOutcomes

(***************************************************************************)
(* C14: the all-failed response is sent only after every candidate of      *)
(* every configured group has been attempted and none of them succeeded;   *)
(* and, every outbound call completing or timing out, every chat request   *)
(* that reaches the worker is answered, once: a dispatched one with a JSON *)
(* response, and its response never changes afterwards.                    *)
(***************************************************************************)
C14_ExhaustedThenAnswered ==
    /\ [](AllFailedResponse =>
            /\ InPriorityOrder
            /\ Len(attempts) = Len(PriorityOrder)
            /\ \A i \in 1..Len(attempts) : attempts[i].outcome \in FailedOutcomes)
    /\ [](pc = "parse" => <>Done)
    /\ [](Dispatched => <>(Done /\ resp.kind = "json"))
    /\ [][resp.kind # "none" => resp' = resp]_vars

\* all five candidates were attempted and failed before the all-failed answer
C14_Witness ==
    /\ AllFailedResponse
    /\ env = Keys
    /\ Len(attempts) = 5
    /\ Len(resp.details) >= 3

(***************************************************************************)
(* C15: for every candidate that answered with a non-2xx status, the       *)
(* failure entry recorded for it carries that status code, whether its     *)
(* body can be parsed or not; the error message embedded in the body is    *)
(* added only when the body can be parsed.                                 *)
(***************************************************************************)
HttpErrors == {i \in 1..Len(attempts) : attempts[i].outcome = "http_error"}

C15_StatusCodeRecorded ==
    \A i \in HttpErrors :
        /\ Len(attempts[i].pushed) = 1
        /\ attempts[i].pushed[1].provider = EntryOf(attempts[i]).provider
        /\ attempts[i].pushed[1].status = attempts[i].status
        /\ \E j \in 1..Len(errors) : errors[j] = attempts[i].pushed[1]

(***************************************************************************)
(* C16: for every candidate that answered 2xx with a missing or empty      *)
(* text, the dispatcher records a failure entry for it that is not the one *)
(* of a transport exception or of a timeout, and goes on to the next       *)
(* candidate.                                                              *)
(***************************************************************************)
ExceptionMessages == {NetworkError, AbortError, SyntaxError, BodyUsedError, NullTypeError}
EmptyResults == {i \in 1..Len(attempts) : attempts[i].outcome = "empty"}

C16_EmptyResultRecorded ==
    \A i \in EmptyResults :
        /\ Len(attempts[i].pushed) = 1
        /\ attempts[i].pushed[1].provider = EntryOf(attempts[i]).provider
        /\ attempts[i].pushed[1].error \notin ExceptionMessages
        /\ (Done /\ i < Len(PriorityOrder)) => Len(attempts) > i

(***************************************************************************)
(* C17: when an outbound call throws, or is aborted by its 15000 ms timer, *)
(* the exception is caught: a failure entry with the exception's message   *)
(* is recorded for that candidate, the next candidate is attempted, and no *)
(* exception leaves the handler.                                           *)
(***************************************************************************)
Failed == {i \in 1..Len(attempts) : attempts[i].outcome \in {"exception", "timeout"}}

C17_ExceptionCaught ==
    \A i \in Failed :
        LET e == [provider |-> EntryOf(attempts[i]).provider,
                  model    |-> EntryOf(attempts[i]).model,
                  status   |-> 0,
                  error    |-> IF attempts[i].outcome = "timeout"
                               THEN "The operation was aborted" ELSE "fetch failed",
                  details  |-> Undefined]
        IN /\ attempts[i].pushed = <<e>>
           /\ \E j \in 1..Len(errors) : errors[j] = e
           /\ resp.kind # "exception"
           /\ pc # "group" => \/ i = Len(PriorityOrder)
                              \/ /\ Len(attempts) > i
                                 /\ CandidateOf(attempts[i + 1]) = PriorityOrder[i + 1]

\* EdenAI timed out, Gemini's call threw, the first OpenRouter model answered
C17_Witness ==
    /\ Len(attempts) = 3
    /\ attempts[1].outcome = "timeout"
    /\ attempts[2].outcome = "exception"
    /\ SuccessResponse
    /\ resp.provider = "openrouter"

(***************************************************************************)
(* C18: the dispatch is deterministic in its order: two requests to a      *)
(* worker with the same credentials and the same preferred-model hint      *)
(* attempt the same candidates in the same order, and given the same       *)
(* outcomes get the same response; what came back to one request changes   *)
(* nothing in the order of the other, begun before, during or after it.    *)
(***************************************************************************)
SameHint == parked.pc # "absent" /\ parked.workerReq.model = workerReq.model

C18_DeterministicOrder ==
    SameHint =>
        /\ \A i \in 1..Len(attempts) :
              i <= Len(parked.attempts) =>
                  CandidateOf(attempts[i]) = CandidateOf(parked.attempts[i])
        /\ (Done /\ parked.pc = "done" /\ attempts = parked.attempts) =>
              resp = parked.resp

\* both requests, with the caller's model, saw a timeout, an HTTP error and
\* then an answer, and got the same response
C18_Witness ==
    /\ SameHint
    /\ workerReq.model = "anthropic/claude-3.5-sonnet"
    /\ Done /\ parked.pc = "done"
    /\ Len(attempts) = 3
    /\ attempts = parked.attempts
    /\ attempts[1].outcome = "timeout"
    /\ attempts[2].outcome = "http_error"
    /\ SuccessResponse
    /\ resp = parked.resp

(***************************************************************************)
(* C19: two chat requests in progress at once are independent, however     *)
(* their steps interleave: each gets the response it would get alone with  *)
(* the same provider outcomes, and the details of one never hold an entry  *)
(* produced by an attempt of the other.                                    *)
(***************************************************************************)
RECURSIVE EntriesOf(_)
\* the entries the handler pushed for these attempts, in order
EntriesOf(att) == IF att = <<>> THEN <<>>
                  ELSE att[1].pushed \o EntriesOf(Tail(att))

\* the response to a dispatched request that made these attempts, alone
Alone(att) ==
    IF att # <<>> /\ att[Len(att)].outcome = "valid"
    THEN [kind |-> "json", status |-> 200, success |-> "true", error |-> Undefined,
          text |-> "Hi there", provider |-> att[Len(att)].provider,
          model |-> att[Len(att)].model, details |-> <<>>, apiKey |-> <<>>]
    ELSE [kind |-> "json", status |-> 500, success |-> "false",
          error |-> "All AI providers failed", text |-> Undefined,
          provider |-> Undefined, model |-> Undefined, details |-> EntriesOf(att),
          apiKey |-> <<>>]

C19_ConcurrentRequestsIndependent ==
    parked.pc # "absent" =>
        /\ Dispatched => /\ InPriorityOrder
                         /\ errors = EntriesOf(attempts)
        /\ (Done /\ Dispatched) => resp = Alone(attempts)
        /\ parked.errors = EntriesOf(parked.attempts)
        /\ (parked.pc = "done" /\ parked.grp >= 1) => parked.resp = Alone(parked.attempts)

\* both requests have failed on every candidate, each with its own details
C19_Witness ==
    /\ AllFailedResponse
    /\ parked.pc = "done"
    /\ parked.resp.error = "All AI providers failed"
    /\ Len(resp.details) = 3
    /\ Len(parked.resp.details) = 3
    /\ \A i \in 1..3 : resp.details[i] # parked.resp.details[i]

(***************************************************************************)
(* C20: the response time of one chat request is at most 45 s: with all    *)
(* three keys configured, the timeout budgets of all the attempts one      *)
(* request makes add up to no more than 45000 ms.                          *)
(***************************************************************************)
\* "Total Max Response Time: 45 seconds"
MaxTotalMs == 45000

C20_TotalTimeoutBudget ==
    env = Keys => Len(attempts) * TimeoutMs <= MaxTotalMs

(***************************************************************************)
(* C21: callCloudflareAI sends at most retries+1 requests to the worker    *)
(* (at most 3 with the default retries), sends none after an answer with   *)
(* success true and a non-empty text, whose text it returns, and otherwise *)
(* throws, after its last attempt.                                         *)
(***************************************************************************)
Requests == {k \in 1..Len(client.log) : client.log[k].ev = "request"}
GoodAnswers == {k \in 1..Len(client.log) :
                   /\ client.log[k].ev = "answer"
                   /\ client.log[k].text \notin {Undefined, ""}}
\* the requests `retries` allows: retries+1, none if that is negative
Allowed == IF client.retries.n + 1 > 0 THEN client.retries.n + 1 ELSE 0

C21_BoundedRetries ==
    client.fn = "callCloudflareAI" =>
        /\ Cardinality(Requests) <= 3
        /\ client.retries.t = "number" => Cardinality(Requests) <= Allowed
        /\ \A k \in GoodAnswers :
              /\ k = Len(client.log)
              /\ client.pc = "returned"
              /\ client.result = client.log[k].text
        /\ client.pc = "returned" => Len(client.log) \in GoodAnswers
        /\ (client.pc = "thrown" /\ client.retries.t = "number") =>
              /\ Cardinality(Requests) = Allowed
              /\ GoodAnswers = {}

\* the third request of a call with the default retries is answered with a text
C21_Witness ==
    /\ client.fn = "callCloudflareAI"
    /\ client.arg = "string"
    /\ client.retries = [t |-> "number", n |-> 2]
    /\ Cardinality(Requests) = 3
    /\ client.pc = "returned"
    /\ client.result = "Hi there"

(***************************************************************************)
(* C22: a preferred model chosen by a client reaches the dispatcher on     *)
(* every path: when the caller's request names a model, sent to the worker *)
(* itself or to the Pages function, and the OpenRouter group is reached,   *)
(* the first OpenRouter attempt uses exactly that model.                   *)
(***************************************************************************)
C22_PreferredModelReachesDispatcher ==
    (request.json = "object" /\ request.model \notin {Undefined, ""}
        /\ OpenRouterAttempts # <<>>) =>
            OpenRouterAttempts[1].model = request.model

(***************************************************************************)
(* C23: without GITHUB_API_TOKEN every request that reaches the /github    *)
(* route is answered 500 "GitHub API token not configured" and no call to  *)
(* the GitHub API is made; without EDENAI_API_KEY every request that       *)
(* reaches the /ocr route is answered 500 and no call to the OCR provider  *)
(* is made.                                                                *)
(***************************************************************************)
ToGitHub == workerReq.path \in GitHubPaths /\ workerReq.method # "OPTIONS"
ToOcr == workerReq.path \in OcrPaths /\ workerReq.method # "OPTIONS"

C23_ProxyNeedsCredential ==
    /\ (ToGitHub /\ "GITHUB_API_TOKEN" \notin env) =>
          /\ attempts = <<>>
          /\ Done => /\ resp.status = 500
                     /\ resp.error = "GitHub API token not configured"
    /\ (ToOcr /\ "EDENAI_API_KEY" \notin env) =>
          /\ attempts = <<>>
          /\ Done => /\ resp.status = 500
                     /\ resp.error = "EdenAI API key not configured"

\* a POST /ocr with a file is refused for want of the EdenAI key, the GitHub
\* token being there
C23_Witness ==
    /\ ToOcr
    /\ workerReq.method = "POST"
    /\ workerReq.file = "data"
    /\ env = {"GITHUB_API_TOKEN"}
    /\ Done
    /\ resp.status = 500
    /\ attempts = <<>>

(***************************************************************************)
(* C24: for every attempt whose fetch completed normally (a response came  *)
(* back), the 15000 ms abort timer of that attempt is no longer armed      *)
(* while the dispatcher inspects the response and at any time after, so    *)
(* that timer cannot fire.                                                 *)
(***************************************************************************)
\* the attempts whose fetch gave a response: the settled ones with a status,
\* and the current one while its response is inspected
FetchCompleted ==
    {k \in 1..Len(attempts) : \/ attempts[k].status # 0
                              \/ k = Len(attempts) /\ pc = "body"}

C24_TimerClearedOnResponse == \A k \in FetchCompleted : k \notin timers

\* two attempts have had their response, the second after 10 s, and the second
\* response is being inspected
C24_Witness ==
    /\ Len(attempts) = 2
    /\ FetchCompleted = {1, 2}
    /\ pc = "body"
    /\ elapsed = 10000
    /\ timers = {}

(***************************************************************************)
(* C25: when the worker returns its response, no abort timer of any        *)
(* attempt is still armed, whichever way each attempt ended.               *)
(***************************************************************************)
C25_NoTimerArmedAtReturn == Done => timers = {}

(***************************************************************************)
(* C26: pollAsyncOCRResult stops polling as soon as a poll reports the     *)
(* status 'failed': that poll is its last, and the function throws the     *)
(* job's error (or 'OCR job failed') without a further poll.               *)
(***************************************************************************)
Polling == client.fn \in {"extractTextWithMistralOCR", "pollAsyncOCRResult"}

C26_PollStopsOnFailed ==
    (Polling /\ client.poll.failedAt # 0) =>
        /\ client.poll.polls = client.poll.failedAt
        /\ client.poll.out = "thrown"
        /\ client.poll.result \in {"unreadable scan", "OCR job failed"}

(***************************************************************************)
(* C27: one top-level invocation of extractTextWithMistralOCR sends at     *)
(* most MAX_RETRIES + 1 = 3 POSTs to /ocr, whatever the outcomes.          *)
(***************************************************************************)
C27_BoundedPosts ==
    client.fn = "extractTextWithMistralOCR" => client.posts <= MAX_RETRIES + 1

\* three POSTs have been sent and the last one has failed too
C27_Witness ==
    /\ client.fn = "extractTextWithMistralOCR"
    /\ client.posts = MAX_RETRIES + 1
    /\ client.pc = "thrown"

(***************************************************************************)
(* C28: extractTextWithMistralOCR does not retry a 401, 403 or 429: the    *)
(* POST answered so is the last one, and the function throws.              *)
(***************************************************************************)
C28_RefusalNotRetried ==
    (client.fn = "extractTextWithMistralOCR" /\ client.refusedAt # 0) =>
        /\ client.posts = client.refusedAt
        /\ client.pc = "thrown"

(***************************************************************************)
(* C29: pollAsyncOCRResult always terminates: it sends at most maxAttempts *)
(* polls (30 by default), returns the text of the first poll answered      *)
(* 'finished' with a non-empty text, and otherwise throws 'OCR job timed   *)
(* out' after the last attempt, whatever the polls are answered.           *)
(***************************************************************************)
PollBounded ==
    (Polling /\ client.poll.out # "none") =>
        /\ client.poll.polls <= client.poll.max
        /\ client.poll.finishedAt # 0 =>
              /\ client.poll.out = "returned"
              /\ client.poll.polls = client.poll.finishedAt
              /\ client.poll.result = client.poll.text
        /\ client.poll.out = "returned" => client.poll.finishedAt # 0
        /\ client.poll.out = "thrown" =>
              /\ client.poll.result = "OCR job timed out"
              /\ client.poll.polls = client.poll.max
              /\ client.poll.finishedAt = 0

PollRunning == Polling /\ client.poll.out = "running"
PollEnded == Polling /\ client.poll.out \in {"returned", "thrown"}

C29_PollTerminates == []PollBounded /\ (PollRunning ~> PollEnded)

\* the default thirty polls have been sent, one of them answered 'failed', and
\* the job has timed out
C29_Witness ==
    /\ Polling
    /\ client.poll.max = DefaultMaxAttempts
    /\ client.poll.polls = DefaultMaxAttempts
    /\ client.poll.failedAt # 0
    /\ client.poll.out = "thrown"

(***************************************************************************)
(* C30: in callCloudflareAI every retry is preceded by a backoff wait of   *)
(* 1000 * (i + 1) ms, i being the index of the attempt that failed,        *)
(* whether it failed by a thrown error or by a worker response without     *)
(* success or text.                                                        *)
(***************************************************************************)
\* the number of requests among the first k entries of the history
RequestsUpTo(k) == Cardinality({j \in Requests : j <= k})

C30_BackoffBeforeEveryRetry ==
    client.fn = "callCloudflareAI" =>
        \A k \in Requests :
            k > 1 => /\ client.log[k - 1].ev = "wait"
                     /\ client.log[k - 1].ms = 1000 * RequestsUpTo(k - 1)

(***************************************************************************)
(* C31: callCloudflareAI never fails without having contacted the worker:  *)
(* for every form of its arguments it has sent at least one request by the *)
(* time it throws.                                                         *)
(***************************************************************************)
C31_RequestBeforeThrow ==
    (client.fn = "callCloudflareAI" /\ client.pc = "thrown") => Requests # {}

(***************************************************************************)
(* C32: callAIWithRetry calls callAI at most maxRetries times (3 by        *)
(* default), returns the result of the first call that succeeds and makes  *)
(* no further call, waits 1000 ms doubled after each failure between       *)
(* consecutive attempts, does not wait after the last attempt, and throws  *)
(* the error of the last attempt when all attempts fail.                   *)
(***************************************************************************)
RECURSIVE Pow2(_)
Pow2(n) == IF n = 0 THEN 1 ELSE 2 * Pow2(n - 1)

\* the number of entries of kind ev among the first k of the history
CountUpTo(ev, k) == Cardinality({j \in 1..k : client.log[j].ev = ev})

C32_RetryWithDoubledWait ==
    client.fn = "callAIWithRetry" =>
        /\ CountUpTo("call", Len(client.log)) <= (IF client.maxRetries > 0 THEN client.maxRetries ELSE 0)
        /\ \A k \in 1..Len(client.log) :
              LET e == client.log[k]
                  calls == CountUpTo("call", k)
              IN /\ e.ev = "call" => k = 1 \/ client.log[k - 1].ev = "wait"
                 /\ e.ev = "value" => /\ k = Len(client.log)
                                      /\ client.pc = "returned"
                                      /\ client.result = e.value
                 /\ e.ev = "wait" => /\ client.log[k - 1].ev = "error"
                                     /\ e.ms = 1000 * Pow2(CountUpTo("wait", k - 1))
                                     /\ calls < client.maxRetries
                 /\ (e.ev = "error" /\ calls < client.maxRetries) =>
                        /\ k < Len(client.log)
                        /\ client.log[k + 1].ev = "wait"
                 /\ (e.ev = "error" /\ calls = client.maxRetries) =>
                        /\ k = Len(client.log)
                        /\ client.pc \in {"loop", "thrown"}
                        /\ client.pc = "thrown" => client.error = e.msg
        /\ client.pc = "returned" => /\ client.log # <<>>
                                     /\ client.log[Len(client.log)].ev = "value"
        /\ (client.pc = "thrown" /\ client.maxRetries > 0) =>
              /\ client.log[Len(client.log)].ev = "error"
              /\ CountUpTo("call", Len(client.log)) = client.maxRetries

\* three attempts have failed, each in its own way, with waits of 1000 and
\* 2000 ms between them, and the third error has been thrown
C32_Witness ==
    /\ client.fn = "callAIWithRetry"
    /\ client.pc = "thrown"
    /\ client.maxRetries = 3
    /\ Len(client.log) = 8
    /\ client.log[2].msg = NetworkError
    /\ client.log[5].msg = WorkerAIError
    /\ client.log[6].ms = 2000
    /\ client.error = EmptyAIResponse

(***************************************************************************)
(* C33: end to end, one invocation of callCloudflareAI with retries = r    *)
(* against the worker with the three provider keys configured causes at    *)
(* most (r + 1) * 5 upstream provider attempts in total, and attempts each *)
(* (provider, model) candidate at most r + 1 times.                        *)
(***************************************************************************)
AttemptsOf(c) == {k \in 1..Len(attempts) : CandidateOf(attempts[k]) = c}

C33_EndToEndAttempts ==
    (client.fn = "callCloudflareAI" /\ client.retries.t = "number") =>
        /\ Len(attempts) <= (client.retries.n + 1) * 5
        /\ \A k \in 1..Len(attempts) :
              Cardinality(AttemptsOf(CandidateOf(attempts[k]))) <= client.retries.n + 1

(***************************************************************************)
(* C34: parseResumeFromFile calls the chat API only after it has extracted *)
(* at least 50 characters of text; a file of type text/plain or named      *)
(* *.txt never triggers an OCR request; and every failure, on any path,    *)
(* reaches the caller as one error whose message starts with               *)
(* 'Failed to parse resume: '.                                             *)
(***************************************************************************)
Parsing == "file" \in DOMAIN client

C34_ParseResume ==
    Parsing =>
        /\ client.chats <= 1
        /\ client.chats = 1 => client.chatLen >= 50 /\ client.chatLen = client.len
        /\ IsTextFile(client.file) => client.posts = 0
        /\ (client.fn = "parseResumeFromFile" /\ client.pc = "thrown") =>
              /\ client.error.prefix = "Failed to parse resume: "
              /\ client.error.msg # Undefined
        /\ (client.fn = "parseResumeFromFile" /\ client.pc # "thrown") =>
              client.error.prefix = ""

\* a PDF whose three OCR requests have failed has been read as text, its text
\* given to the chat API, and the placeholder answer thrown to the caller
C34_Witness ==
    /\ Parsing
    /\ client.fn = "parseResumeFromFile"
    /\ ~IsTextFile(client.file)
    /\ client.posts = 3
    /\ client.chats = 1
    /\ client.len = 201
    /\ client.pc = "thrown"
    /\ client.error.msg = "Placeholder data received"

(***************************************************************************)
(* C35: the worker's POST /ocr answers success:true only if the upstream   *)
(* OCR call returned 2xx, the selected provider's result is present with a *)
(* status other than 'fail', and the extracted text has at least 20        *)
(* characters; in every other case it answers success:false (or an error)  *)
(* with a non-2xx status; and the provider it reports is the one selected  *)
(* from the file type (google for application/pdf and unknown types,       *)
(* mistral for image types), not the one the client requested.            *)
(***************************************************************************)
PostOcr == workerReq.method = "POST" /\ workerReq.path = "/ocr"
Selected == IF workerReq.fileType \in {"image/png", "image/jpeg"} THEN "mistral"
            ELSE "google"
\* the upstream call was made and answered, and its answer has all it takes
GoodOcrAnswer ==
    /\ attempts # <<>>
    /\ attempts[Len(attempts)].status \in 200..299
    /\ res.json = "object"
    /\ Selected \in res.present
    /\ ~res.fail
    /\ Len(res.text) >= 20

====
